---- MODULE Spec2Model ----
(***************************************************************************)
(* Hippocampal memory MCP server: the memory graph engine.                 *)
(*                                                                         *)
(* The Graph Store is a property graph: a list of nodes and a list of      *)
(* relationships (nothing is ever deleted by the handlers, so a node's     *)
(* position in the list is its identity).  Each tool handler is one        *)
(* action; the Cypher statements it sends are operators on the graph.      *)
(*                                                                         *)
(* Numbers that are fractions in the source (valence, significance,        *)
(* strength, intensity, similarity) are kept in tenths: 0.3 is 3, 1.5 is   *)
(* 15.  final_score is kept in hundredths.  Identifiers, names and free    *)
(* texts are non-empty strings.                                            *)
(***************************************************************************)
EXTENDS Integers, Sequences, FiniteSets, TLC

VARIABLES
    graph,      \* the Graph Store: [nodes |-> Seq(node), rels |-> Seq(rel)]
    clock,      \* wall clock (Date.now(), datetime()); one tick per call
    sessions,   \* sessions acquired by returned calls and never closed
    resp,       \* the last tool call: its arguments and what it returned
    reply,      \* the last object a server's dispatcher handed to its caller
    transactions, \* transactions begun on the Graph Store so far
    calls,      \* the evolve_bond calls in flight from concurrent callers
    sse         \* the remote server: its SSE transports and the POSTs it answered

vars == <<graph, clock, sessions, resp, reply, transactions, calls, sse>>

-----------------------------------------------------------------------------
(* Values *)

\* JS null / undefined and Cypher null, for string-valued things
Null == "null"
\* JS null / undefined and Cypher null, for number-valued things
NullN == 0 - 999

\* `x || null` on a number: 0 is falsy
JsOrNullNum(x) == IF x = 0 \/ x = NullN THEN NullN ELSE x
\* `s || null` on a string: the empty string is falsy
JsOrNullStr(s) == IF s = "" \/ s = Null THEN Null ELSE s

\* randomUUID(): a fresh identifier per call
UuidTable == <<"u1", "u2", "u3", "u4", "u5", "u6", "u7", "u8", "u9">>
randomUUID(k) == UuidTable[k]

\* `event-${Date.now()}-${Math.random()...}`: a fresh identifier per call
AutoIdTable == <<"ev1", "ev2", "ev3", "ev4", "ev5", "ev6", "ev7", "ev8", "ev9">>
AutoEventId(k) == AutoIdTable[k]

SeqToSet(s) == {s[i] : i \in DOMAIN s}

RECURSIVE SetToSeq(_)
SetToSeq(S) ==
    IF S = {} THEN <<>>
    ELSE LET x == CHOOSE y \in S : TRUE IN <<x>> \o SetToSeq(S \ {x})

-----------------------------------------------------------------------------
(* The property graph *)

\* A node with no property set
Node0 ==
    [label |-> Null, id |-> Null, name |-> Null, kind |-> Null, meta |-> Null,
     timestamp |-> NullN, happened_at |-> NullN, type |-> Null,
     emotional_valence |-> NullN, significance |-> NullN,
     context_summary |-> Null, full_content |-> Null, embedding |-> NullN,
     title |-> Null, description |-> Null,
     summary |-> Null, valence |-> Null, intensity |-> NullN,
     entry_date |-> NullN, who_context |-> <<>>, where_context |-> Null,
     how_context |-> {}]

NoProps == [none |-> TRUE]

EmptyGraph == [nodes |-> <<>>, rels |-> <<>>]

NodeIds(g) == DOMAIN g.nodes
RelIds(g) == DOMAIN g.rels

\* MATCH (n:Label {key: val}); label Null is the label-less pattern (n {key: val})
MatchNodes(g, label, key, val) ==
    {i \in NodeIds(g) :
        /\ label = Null \/ g.nodes[i].label = label
        /\ val # Null
        /\ g.nodes[i][key] = val}

\* the relationships of one type from src to dst
RelsBetween(g, type, src, dst) ==
    {j \in RelIds(g) :
        g.rels[j].type = type /\ g.rels[j].src = src /\ g.rels[j].dst = dst}

\* CREATE (n): the graph with the node appended
CreateNode(g, n) == [g EXCEPT !.nodes = Append(@, n)]

\* the relationship list overwritten where it is to be extended
CreateRelsMutantAssign(g, rs) == [g EXCEPT !.rels = SetToSeq(rs)]

\* CREATE of a set of relationships
CreateRels(g, rs) == [g EXCEPT !.rels = @ \o SetToSeq(rs)]

\* MERGE (a)-[:TYPE]->(b) for every bound pair: created only where absent
MergeRelsMutantCreate(g, type, pairs) ==
    CreateRels(g, {[type |-> type, src |-> pr[1], dst |-> pr[2], p |-> NoProps] :
                      pr \in pairs})

MergeRels(g, type, pairs) ==
    CreateRels(g, {[type |-> type, src |-> pr[1], dst |-> pr[2], p |-> NoProps] :
                      pr \in {q \in pairs : RelsBetween(g, type, q[1], q[2]) = {}}})

\* MERGE (n:Label {key...}): the nodes the pattern binds, one created if none.
\* The result is the graph and the set of bound nodes.
MergeNodeMutantCreate(g, proto, keys) ==
    [g |-> CreateNode(g, proto), bound |-> {Len(g.nodes) + 1}]

MergeNode(g, proto, keys) ==
    LET found == {i \in NodeIds(g) :
                    /\ g.nodes[i].label = proto.label
                    /\ \A k \in keys : g.nodes[i][k] = proto[k]}
    IN  IF found # {}
        THEN [g |-> g, bound |-> found]
        ELSE [g |-> CreateNode(g, proto), bound |-> {Len(g.nodes) + 1}]

\* The Event nodes carrying an id (uniqueness constraint event_id)
EventIdTaken(g, id) == MatchNodes(g, "Event", "id", id) # {}

-----------------------------------------------------------------------------
(* Transactions and store faults *)

\* What the environment does to one call: nothing, or one failure of the
\* embedding provider ("embed"), of the k-th statement run in the
\* transaction or session ("stmt"), of the commit ("commit"), or of the
\* read in the second session after the commit ("reread").
NoFault == [at |-> "none", k |-> 0]
StmtFault(k) == [at |-> "stmt", k |-> k]
EmbedFault == [at |-> "embed", k |-> 0]
CommitFault == [at |-> "commit", k |-> 0]
RereadFault == [at |-> "reread", k |-> 0]

\* tx.rollback(): the store keeps the graph it had when the transaction began
TxRollbackMutantKeep(pre, work) == work

TxRollback(pre, work) == pre

\* tx.commit(): the transaction's writes become the graph
TxCommit(pre, work) == work

\* The first statement that fails, 0 if none: a statement the environment
\* fails, or the Event CREATE when the id is taken (constraint event_id).
FirstFailure(idTaken, nStmts, fault) ==
    IF idTaken THEN 1
    ELSE IF fault.at = "stmt" /\ fault.k >= 1 /\ fault.k <= nStmts THEN fault.k
    ELSE 0

\* A failed response as the tool dispatcher's catch builds it; `issued` is
\* the number of statements the call sent to the store
Failure(op, args, fault, error, issued) ==
    [op |-> op, ok |-> FALSE, args |-> args, fault |-> fault,
     error |-> error, issued |-> issued, data |-> NoProps]

Success(op, args, fault, data, issued) ==
    [op |-> op, ok |-> TRUE, args |-> args, fault |-> fault,
     error |-> Null, issued |-> issued, data |-> data]

-----------------------------------------------------------------------------
(* hippocampus_write_event *)

EventRows(g, eventId) == MatchNodes(g, "Event", "id", eventId)

\* CREATE (e:Event {id, happened_at, title, description})
HipCreateEvent(g, eventId, happenedAt, event) ==
    CreateNode(g, [Node0 EXCEPT !.label = "Event", !.id = eventId,
                                !.happened_at = happenedAt,
                                !.title = event.title,
                                !.description = event.description])

\* MATCH (e:Event {id}) MERGE (p:Place {name}) MERGE (e)-[:HELD_AT]->(p)
HipBindPlace(g, eventId, placeName) ==
    LET es == EventRows(g, eventId)
        m  == MergeNode(g, [Node0 EXCEPT !.label = "Place", !.name = placeName],
                        {"name"})
    IN  IF es = {} THEN g ELSE MergeRels(m.g, "HELD_AT", es \X m.bound)

\* MATCH (e:Event {id}) MERGE (p:Person {name}) MERGE (p)-[:PARTICIPATED_IN]->(e)
HipBindPerson(g, eventId, name) ==
    LET es == EventRows(g, eventId)
        m  == MergeNode(g, [Node0 EXCEPT !.label = "Person", !.name = name],
                        {"name"})
    IN  IF es = {} THEN g ELSE MergeRels(m.g, "PARTICIPATED_IN", m.bound \X es)

\* MATCH (e:Event {id}) MERGE (a:Agent {id}) MERGE (a)-[:PARTICIPATED_IN]->(e)
HipBindAgent(g, eventId, agentId) ==
    LET es == EventRows(g, eventId)
        m  == MergeNode(g, [Node0 EXCEPT !.label = "Agent", !.id = agentId],
                        {"id"})
    IN  IF es = {} THEN g ELSE MergeRels(m.g, "PARTICIPATED_IN", m.bound \X es)

\* MATCH (e:Event {id}) MERGE (c:Catalyst {description}) MERGE (e)-[:CATALYZED_BY]->(c)
HipBindCatalyst(g, eventId, reason) ==
    LET es == EventRows(g, eventId)
        m  == MergeNode(g, [Node0 EXCEPT !.label = "Catalyst",
                                         !.description = reason],
                        {"description"})
    IN  IF es = {} THEN g ELSE MergeRels(m.g, "CATALYZED_BY", es \X m.bound)

\* MERGE (ent:Entity {id}) ON CREATE SET ent.name, ent.kind, ent.meta
HipMergeEntity(g, entity) ==
    MergeNode(g, [Node0 EXCEPT !.label = "Entity", !.id = entity.id,
                               !.name = entity.name, !.kind = entity.kind,
                               !.meta = JsOrNullStr(entity.meta)],
              {"id"})

\* ... MERGE (ent)-[:INVOLVED_IN]->(e)
HipBindEntity(g, eventId, entity) ==
    LET es == EventRows(g, eventId)
        m  == HipMergeEntity(g, entity)
    IN  IF es = {} THEN g ELSE MergeRels(m.g, "INVOLVED_IN", m.bound \X es)

\* ... MERGE (e)-[:PRODUCED]->(ent)
HipBindProduced(g, eventId, entity) ==
    LET es == EventRows(g, eventId)
        m  == HipMergeEntity(g, entity)
    IN  IF es = {} THEN g ELSE MergeRels(m.g, "PRODUCED", es \X m.bound)

\* MERGE (f:Effect {...}) in place of CREATE: an Effect with the same
\* summary, valence and intensity is reused
HipBindEffectMutantMerge(g, eventId, effect) ==
    LET es == EventRows(g, eventId)
        m  == MergeNode(g, [Node0 EXCEPT !.label = "Target",
                                         !.id = effect.target_id,
                                         !.kind = effect.target_kind],
                        {"id", "kind"})
        f  == MergeNode(m.g, [Node0 EXCEPT !.label = "Effect",
                                           !.summary = effect.summary,
                                           !.valence = effect.valence,
                                           !.intensity = effect.intensity],
                        {"summary", "valence", "intensity"})
    IN  IF es = {} THEN g
        ELSE MergeRels(MergeRels(f.g, "HAD_EFFECT_ON", es \X f.bound),
                       "WITH_RESPECT_TO", f.bound \X m.bound)

\* MATCH (e:Event {id}) MERGE (t:Target {id, kind}) CREATE (f:Effect {...})
\* MERGE (e)-[:HAD_EFFECT_ON]->(f) MERGE (f)-[:WITH_RESPECT_TO]->(t):
\* one Effect is created per row (per Event and Target bound).
HipBindEffect(g, eventId, effect) ==
    LET es   == EventRows(g, eventId)
        m    == MergeNode(g, [Node0 EXCEPT !.label = "Target",
                                           !.id = effect.target_id,
                                           !.kind = effect.target_kind],
                          {"id", "kind"})
        rows == SetToSeq(es \X m.bound)
        f    == [Node0 EXCEPT !.label = "Effect", !.summary = effect.summary,
                              !.valence = effect.valence,
                              !.intensity = effect.intensity]
        base == Len(m.g.nodes)
        g2   == [m.g EXCEPT !.nodes = @ \o [i \in 1..Len(rows) |-> f]]
    IN  IF es = {} THEN g
        ELSE CreateRels(g2,
                {[type |-> "HAD_EFFECT_ON", src |-> rows[i][1], dst |-> base + i,
                  p |-> NoProps] : i \in 1..Len(rows)}
                \cup
                {[type |-> "WITH_RESPECT_TO", src |-> base + i, dst |-> rows[i][2],
                  p |-> NoProps] : i \in 1..Len(rows)})

\* The statements handleWriteEvent runs in its transaction, in order
HipStatements(event) ==
    <<[s |-> "event"]>>
    \o (IF event.where # Null /\ event.where # ""
        THEN <<[s |-> "place", place |-> event.where]>> ELSE <<>>)
    \o [i \in 1..Len(event.who) |->
          [s |-> "who", id |-> event.who[i].id, type |-> event.who[i].type]]
    \o [i \in 1..Len(event.why) |-> [s |-> "why", reason |-> event.why[i]]]
    \o [i \in 1..Len(event.what_entities) |->
          [s |-> "entity", entity |-> event.what_entities[i]]]
    \o [i \in 1..Len(event.what_produced) |->
          [s |-> "produced", entity |-> event.what_produced[i]]]
    \o [i \in 1..Len(event.effects) |-> [s |-> "effect", effect |-> event.effects[i]]]

HipRunStatement(g, eventId, happenedAt, event, st) ==
    CASE st.s = "event"    -> HipCreateEvent(g, eventId, happenedAt, event)
      [] st.s = "place"    -> HipBindPlace(g, eventId, st.place)
      [] st.s = "who"      -> IF st.type = "person"
                              THEN HipBindPerson(g, eventId, st.id)
                              ELSE IF st.type = "agent"
                              THEN HipBindAgent(g, eventId, st.id)
                              ELSE g
      [] st.s = "why"      -> HipBindCatalyst(g, eventId, st.reason)
      [] st.s = "entity"   -> HipBindEntity(g, eventId, st.entity)
      [] st.s = "produced" -> HipBindProduced(g, eventId, st.entity)
      [] st.s = "effect"   -> HipBindEffect(g, eventId, st.effect)

\* the transaction's graph after its first n statements
RECURSIVE HipRun(_, _, _, _, _, _)
HipRun(g, eventId, happenedAt, event, stmts, n) ==
    IF n = 0 THEN g
    ELSE HipRunStatement(HipRun(g, eventId, happenedAt, event, stmts, n - 1),
                         eventId, happenedAt, event, stmts[n])

handleWriteEvent(args, fault) ==
    LET now        == clock + 1
        event      == args.event
        eventId    == IF JsOrNullStr(event.id) = Null THEN AutoEventId(now)
                      ELSE event.id
        happenedAt == IF event.happened_at = NullN THEN now ELSE event.happened_at
        stmts      == HipStatements(event)
        failAt     == FirstFailure(EventIdTaken(graph, eventId), Len(stmts), fault)
        done       == IF failAt > 0 THEN failAt - 1 ELSE Len(stmts)
        work       == HipRun(graph, eventId, happenedAt, event, stmts, done)
        failed     == failAt > 0 \/ fault.at = "commit"
    IN  /\ clock' = now
        \* session.beginTransaction() opens the handler
        /\ transactions' = transactions + 1
        /\ sessions' = sessions
        /\ graph' = IF failed THEN TxRollback(graph, work) ELSE TxCommit(graph, work)
        /\ resp' = IF failAt > 0
                   THEN Failure("hippocampus_write_event", args, fault,
                                "statement error", failAt)
                   ELSE IF fault.at = "commit"
                   THEN Failure("hippocampus_write_event", args, fault,
                                "commit error", Len(stmts))
                   ELSE Success("hippocampus_write_event", args, fault,
                                [event_id |-> eventId, timestamp |-> happenedAt,
                                 title |-> event.title], Len(stmts))

-----------------------------------------------------------------------------
(* evolve_bond *)

\* The statement's parameters as the handler binds them
BondParams(args) ==
    [fromId |-> args.from_entity_id,
     toId |-> args.to_entity_id,
     newStrength |-> args.new_strength,
     emotionalResonance |-> JsOrNullNum(args.emotional_resonance),
     milestone |-> JsOrNullStr(args.milestone),
     context |-> JsOrNullStr(args.interaction_context)]

\* ON CREATE SET ... with the count started at 0
BondOnCreateMutantZero(pm, now) ==
    [strength |-> pm.newStrength,
     emotional_resonance |-> pm.emotionalResonance,
     interaction_count |-> 0,
     first_interaction |-> now,
     last_interaction |-> now,
     milestones |-> IF pm.milestone # Null THEN <<pm.milestone>> ELSE <<>>,
     evolution_trajectory |->
        <<[timestamp |-> now, strength |-> pm.newStrength, context |-> pm.context]>>]

\* ON CREATE SET ...
BondOnCreate(pm, now) ==
    [strength |-> pm.newStrength,
     emotional_resonance |-> pm.emotionalResonance,
     interaction_count |-> 1,
     first_interaction |-> now,
     last_interaction |-> now,
     milestones |-> IF pm.milestone # Null THEN <<pm.milestone>> ELSE <<>>,
     evolution_trajectory |->
        <<[timestamp |-> now, strength |-> pm.newStrength, context |-> pm.context]>>]

\* ON MATCH SET ... with the interaction count left as it was
BondOnMatchMutantCount(b, pm, now) ==
    [b EXCEPT
        !.strength = pm.newStrength,
        !.emotional_resonance =
            IF pm.emotionalResonance # NullN THEN pm.emotionalResonance ELSE @,
        !.last_interaction = now,
        !.milestones = IF pm.milestone # Null THEN Append(@, pm.milestone) ELSE @,
        !.evolution_trajectory =
            Append(@, [timestamp |-> now, strength |-> pm.newStrength,
                       emotional_resonance |-> pm.emotionalResonance,
                       context |-> pm.context])]

\* ON MATCH SET ... with the two lists set where they are to be extended
BondOnMatchMutantOverwrite(b, pm, now) ==
    [b EXCEPT
        !.strength = pm.newStrength,
        !.emotional_resonance =
            IF pm.emotionalResonance # NullN THEN pm.emotionalResonance ELSE @,
        !.interaction_count = @ + 1,
        !.last_interaction = now,
        !.milestones = IF pm.milestone # Null THEN <<pm.milestone>> ELSE @,
        !.evolution_trajectory =
            <<[timestamp |-> now, strength |-> pm.newStrength,
               emotional_resonance |-> pm.emotionalResonance,
               context |-> pm.context]>>]

\* ON MATCH SET ...
BondOnMatch(b, pm, now) ==
    [b EXCEPT
        !.strength = pm.newStrength,
        !.emotional_resonance =
            IF pm.emotionalResonance # NullN THEN pm.emotionalResonance ELSE @,
        !.interaction_count = @ + 1,
        !.last_interaction = now,
        !.milestones = IF pm.milestone # Null THEN Append(@, pm.milestone) ELSE @,
        !.evolution_trajectory =
            Append(@, [timestamp |-> now, strength |-> pm.newStrength,
                       emotional_resonance |-> pm.emotionalResonance,
                       context |-> pm.context])]

\* MATCH (from {id}) MATCH (to {id}): the rows the MERGE runs on
BondRows(g, pm) ==
    MatchNodes(g, Null, "id", pm.fromId) \X MatchNodes(g, Null, "id", pm.toId)

\* CREATE in place of MERGE: an edge per row whether or not one exists
BondMergeMutantCreate(g, rows, pm, now) ==
    CreateRels(g, {[type |-> "BOND", src |-> r[1], dst |-> r[2],
                    p |-> BondOnCreate(pm, now)] : r \in rows})

\* MERGE (from)-[b:BOND]->(to) ON CREATE ... ON MATCH ..., for every row
BondMerge(g, rows, pm, now) ==
    LET hit(j) == g.rels[j].type = "BOND"
                  /\ <<g.rels[j].src, g.rels[j].dst>> \in rows
        updated == [j \in RelIds(g) |->
                      IF hit(j)
                      THEN [g.rels[j] EXCEPT !.p = BondOnMatch(@, pm, now)]
                      ELSE g.rels[j]]
        fresh == {r \in rows : RelsBetween(g, "BOND", r[1], r[2]) = {}}
    IN  CreateRels([g EXCEPT !.rels = updated],
                   {[type |-> "BOND", src |-> r[1], dst |-> r[2],
                     p |-> BondOnCreate(pm, now)] : r \in fresh})

\* the bond object of the response, from the record of one row
BondData(g, row) ==
    LET j == CHOOSE k \in RelsBetween(g, "BOND", row[1], row[2]) : TRUE
        b == g.rels[j].p
    IN  [from |-> g.nodes[row[1]].name,
         to |-> g.nodes[row[2]].name,
         bond |-> [strength |-> b.strength,
                   emotional_resonance |-> b.emotional_resonance,
                   interaction_count |-> b.interaction_count,
                   first_interaction |-> b.first_interaction,
                   last_interaction |-> b.last_interaction,
                   milestones |-> b.milestones,
                   trajectory_length |-> Len(b.evolution_trajectory)]]

handleEvolveBond(args, fault) ==
    LET now  == clock + 1
        pm   == BondParams(args)
        rows == BondRows(graph, pm)
        g2   == BondMerge(graph, rows, pm, now)
    IN  /\ clock' = now
        /\ transactions' = transactions
        /\ sessions' = sessions
        /\ IF fault.at = "stmt"
           THEN /\ graph' = graph
                /\ resp' = Failure("evolve_bond", args, fault, "statement error", 1)
           ELSE /\ graph' = g2
                /\ IF rows = {}
                   THEN resp' = Failure("evolve_bond", args, fault, "TypeError", 1)
                   ELSE \E first \in rows :
                          resp' = Success("evolve_bond", args, fault,
                                          BondData(g2, first), 1)

-----------------------------------------------------------------------------
(* Embedding provider *)

\* The provider is an opaque text -> vector function; vectors are points on
\* a line here, and a text is the list of its parts.
WordVector(w) ==
    CASE w = "cats" -> 0
      [] w = "dogs" -> 0
      [] w = "rain" -> 2
      [] OTHER -> 4

RECURSIVE generateEmbedding(_)
generateEmbedding(text) ==
    IF text = <<>> THEN 0
    ELSE WordVector(Head(text)) + generateEmbedding(Tail(text))

\* the index's similarity score of two vectors, in [0,1] (tenths)
Similarity(v, w) ==
    LET d == IF v >= w THEN v - w ELSE w - v
    IN  IF 3 * d >= 10 THEN 0 ELSE 10 - 3 * d

-----------------------------------------------------------------------------
(* encode_memory *)

\* the range checks that open the handler
EncodeValidMutantNoCheck(event) == TRUE

EncodeValid(event) ==
    /\ ~(event.emotional_valence < (0 - 10) \/ event.emotional_valence > 10)
    /\ ~(event.significance < 0 \/ event.significance > 10)

\* context_summary, and full_content after it when there is one
EmbeddingText(event) ==
    IF JsOrNullStr(event.full_content) # Null
    THEN <<event.context_summary, event.full_content>>
    ELSE <<event.context_summary>>

\* CREATE (e:Event {...})
EncCreateEvent(g, eventId, timestamp, event, embedding) ==
    CreateNode(g, [Node0 EXCEPT !.label = "Event", !.id = eventId,
                                !.timestamp = timestamp,
                                !.type = event.type,
                                !.emotional_valence = event.emotional_valence,
                                !.significance = event.significance,
                                !.context_summary = event.context_summary,
                                !.full_content = JsOrNullStr(event.full_content),
                                !.embedding = embedding])

\* MATCH (e:Event {id}) MATCH (entity {id}) CREATE (e)-[:INVOLVES {...}]->(entity)
EncInvolve(g, eventId, inv) ==
    CreateRels(g, {[type |-> "INVOLVES", src |-> r[1], dst |-> r[2],
                    p |-> [role |-> inv.role, salience |-> inv.salience]] :
                   r \in EventRows(g, eventId)
                         \X MatchNodes(g, Null, "id", inv.entity_id)})

\* duration.between(e1.timestamp, e2.timestamp)
DurationBetween(t1, t2) == IF t1 = NullN \/ t2 = NullN THEN NullN ELSE t2 - t1

\* the edge drawn from the new Event to the preceding one
EncPrecedeMutantReverse(g, eventId, precedingId) ==
    CreateRels(g, {[type |-> "PRECEDED", src |-> r[2], dst |-> r[1],
                    p |-> [temporal_distance |->
                              DurationBetween(g.nodes[r[1]].timestamp,
                                              g.nodes[r[2]].timestamp),
                           causal_strength |-> 8]] :
                   r \in MatchNodes(g, "Event", "id", precedingId)
                         \X EventRows(g, eventId)})

\* MATCH (e1:Event {id: $precedingId}) MATCH (e2:Event {id}) CREATE (e1)-[:PRECEDED]->(e2)
EncPrecede(g, eventId, precedingId) ==
    CreateRels(g, {[type |-> "PRECEDED", src |-> r[1], dst |-> r[2],
                    p |-> [temporal_distance |->
                              DurationBetween(g.nodes[r[1]].timestamp,
                                              g.nodes[r[2]].timestamp),
                           causal_strength |-> 8]] :
                   r \in MatchNodes(g, "Event", "id", precedingId)
                         \X EventRows(g, eventId)})

\* MATCH (e:Event {id}) MATCH (target {id}) CREATE (e)-[:CONSOLIDATED_TO {...}]->(target)
EncConsolidate(g, eventId, c) ==
    CreateRels(g, {[type |-> "CONSOLIDATED_TO", src |-> r[1], dst |-> r[2],
                    p |-> [strength |-> c.strength,
                           consolidation_type |-> c.type,
                           rehearsal_count |-> 1]] :
                   r \in EventRows(g, eventId)
                         \X MatchNodes(g, Null, "id", c.target_id)})

\* The statements handleEncodeMemory runs in its transaction, in order
EncStatements(args) ==
    <<[s |-> "event"]>>
    \o [i \in 1..Len(args.involves) |-> [s |-> "involves", inv |-> args.involves[i]]]
    \o [i \in 1..Len(args.precedes) |-> [s |-> "precedes", id |-> args.precedes[i]]]
    \o [i \in 1..Len(args.consolidates_to) |->
          [s |-> "consolidates", c |-> args.consolidates_to[i]]]

EncRunStatement(g, eventId, timestamp, event, embedding, st) ==
    CASE st.s = "event"        -> EncCreateEvent(g, eventId, timestamp, event, embedding)
      [] st.s = "involves"     -> EncInvolve(g, eventId, st.inv)
      [] st.s = "precedes"     -> EncPrecede(g, eventId, st.id)
      [] st.s = "consolidates" -> EncConsolidate(g, eventId, st.c)

\* the transaction's graph after its first n statements
RECURSIVE EncRun(_, _, _, _, _, _, _)
EncRun(g, eventId, timestamp, event, embedding, stmts, n) ==
    IF n = 0 THEN g
    ELSE EncRunStatement(EncRun(g, eventId, timestamp, event, embedding, stmts, n - 1),
                         eventId, timestamp, event, embedding, stmts[n])

\* the re-read of the created Event in the second session
EncReread(g, eventId) ==
    LET e == CHOOSE i \in EventRows(g, eventId) : TRUE
        out(type) == {j \in RelIds(g) : g.rels[j].type = type /\ g.rels[j].src = e}
        in(type)  == {j \in RelIds(g) : g.rels[j].type = type /\ g.rels[j].dst = e}
    IN  [event_id |-> eventId,
         timestamp |-> g.nodes[e].timestamp,
         type |-> g.nodes[e].type,
         emotional_valence |-> g.nodes[e].emotional_valence,
         significance |-> g.nodes[e].significance,
         context_summary |-> g.nodes[e].context_summary,
         involves |-> {[entity |-> g.rels[j].dst, role |-> g.rels[j].p.role,
                        salience |-> g.rels[j].p.salience] : j \in out("INVOLVES")},
         preceded_by |-> {g.nodes[g.rels[j].src].id : j \in in("PRECEDED")},
         consolidations |->
            {[target |-> g.nodes[g.rels[j].dst].id,
              type |-> g.rels[j].p.consolidation_type,
              strength |-> g.rels[j].p.strength] : j \in out("CONSOLIDATED_TO")}]

handleEncodeMemory(args, fault) ==
    LET now       == clock + 1
        event     == args.event
        eventId   == randomUUID(now)
        timestamp == IF event.timestamp = NullN THEN now ELSE event.timestamp
        embedding == generateEmbedding(EmbeddingText(event))
        stmts     == EncStatements(args)
        failAt    == FirstFailure(EventIdTaken(graph, eventId), Len(stmts), fault)
        done      == IF failAt > 0 THEN failAt - 1 ELSE Len(stmts)
        work      == EncRun(graph, eventId, timestamp, event, embedding, stmts, done)
        rels      == Len(args.involves) + Len(args.precedes)
                     + Len(args.consolidates_to)
    IN  /\ clock' = now
        \* session.beginTransaction() opens the handler
        /\ transactions' = transactions + 1
        /\ IF ~EncodeValid(event)
           THEN \* thrown before any statement; the empty transaction is rolled back
                /\ graph' = TxRollback(graph, graph)
                /\ sessions' = sessions
                /\ resp' = Failure("encode_memory", args, fault, "validation", 0)
           ELSE IF fault.at = "embed"
           THEN /\ graph' = TxRollback(graph, graph)
                /\ sessions' = sessions
                /\ resp' = Failure("encode_memory", args, fault, "embedding error", 0)
           ELSE IF failAt > 0
           THEN /\ graph' = TxRollback(graph, work)
                /\ sessions' = sessions
                /\ resp' = Failure("encode_memory", args, fault,
                                   "statement error", failAt)
           ELSE IF fault.at = "commit"
           THEN /\ graph' = TxRollback(graph, work)
                /\ sessions' = sessions
                /\ resp' = Failure("encode_memory", args, fault,
                                   "commit error", Len(stmts))
           ELSE IF fault.at = "reread"
           THEN \* the transaction is committed; session2.run throws, the catch
                \* block's rollback has nothing left to undo and session2 is
                \* never closed
                /\ graph' = TxCommit(graph, work)
                /\ sessions' = sessions + 1
                /\ resp' = Failure("encode_memory", args, fault,
                                   "read error", Len(stmts) + 1)
           ELSE /\ graph' = TxCommit(graph, work)
                /\ sessions' = sessions
                /\ resp' = Success("encode_memory", args, fault,
                                   [event |-> EncReread(work, eventId),
                                    nodes_created |-> 1,
                                    relationships_created |-> rels],
                                   Len(stmts) + 1)

-----------------------------------------------------------------------------
(* Cypher text and ordering *)

\* A query text is kept as the list of its clauses.  A WHERE is a
\* sub-clause: it is accepted only directly after MATCH, OPTIONAL MATCH,
\* WITH or YIELD; a second WHERE after a WHERE is a syntax error.
WellFormed(q) ==
    \A i \in DOMAIN q :
        q[i] = "WHERE" =>
            /\ i > 1
            /\ q[i - 1] \in {"MATCH", "OPTIONAL MATCH", "WITH", "YIELD"}

\* Cypher comparison with null: null compares to nothing
Ge(a, b) == a # NullN /\ b # NullN /\ a >= b
Le(a, b) == a # NullN /\ b # NullN /\ a <= b

\* ORDER BY key DESC: null sorts before every value
DescKey(k) == IF k = NullN THEN 1000000 ELSE k

\* the orderings of rows that ORDER BY key(row) DESC may return
OrderedDesc(rows, key(_)) ==
    LET n == Len(rows)
    IN  {[i \in 1..n |-> rows[f[i]]] :
            f \in {h \in [1..n -> 1..n] :
                     /\ \A i, j \in 1..n : i # j => h[i] # h[j]
                     /\ \A i \in 1..n : i < n =>
                            DescKey(key(rows[h[i]])) >= DescKey(key(rows[h[i + 1]]))}}

\* LIMIT n
Limit(rows, n) == SubSeq(rows, 1, IF n < Len(rows) THEN n ELSE Len(rows))

-----------------------------------------------------------------------------
(* recall_memory *)

DefaultLimit == 10

\* `limit = 10` in the destructuring: the default stands for undefined only
RecallLimit(args) == IF args.limit = NullN THEN DefaultLimit ELSE args.limit

\* the filters that go into whereClauses
RecallWhereCount(args) ==
    (IF args.emotional_range # <<>> THEN 1 ELSE 0)
    + (IF args.temporal_range # <<>> THEN 1 ELSE 0)
    + (IF args.significance_threshold # NullN THEN 1 ELSE 0)
    + (IF Len(args.event_types) > 0 THEN 1 ELSE 0)

\* cypherQuery as the handler concatenates it
RecallQueryText(args) ==
    (IF JsOrNullStr(args.query) # Null THEN <<"CALL", "YIELD">> ELSE <<"MATCH", "WITH">>)
    \o (IF Len(args.involves_entities) > 0 THEN <<"WITH", "MATCH", "WHERE">> ELSE <<>>)
    \o (IF RecallWhereCount(args) > 0 THEN <<"WHERE">> ELSE <<>>)
    \o <<"WITH">>
    \o (IF args.include_consolidations THEN <<"OPTIONAL MATCH", "WITH">> ELSE <<>>)
    \o <<"RETURN", "ORDER BY", "LIMIT">>

\* whereClauses.join(' AND ') on an Event node
RecallWhereMutantStrict(args, e) ==
    /\ args.emotional_range # <<>> =>
          /\ Ge(e.emotional_valence, args.emotional_range[1])
          /\ Le(e.emotional_valence, args.emotional_range[2])
    /\ args.temporal_range # <<>> =>
          /\ Ge(e.timestamp, args.temporal_range[1])
          /\ Le(e.timestamp, args.temporal_range[2])
    /\ args.significance_threshold # NullN =>
          /\ Ge(e.significance, args.significance_threshold)
          /\ e.significance # args.significance_threshold
    /\ Len(args.event_types) > 0 => e.type \in SeqToSet(args.event_types)

RecallWhere(args, e) ==
    /\ args.emotional_range # <<>> =>
          /\ Ge(e.emotional_valence, args.emotional_range[1])
          /\ Le(e.emotional_valence, args.emotional_range[2])
    /\ args.temporal_range # <<>> =>
          /\ Ge(e.timestamp, args.temporal_range[1])
          /\ Le(e.timestamp, args.temporal_range[2])
    /\ args.significance_threshold # NullN =>
          Ge(e.significance, args.significance_threshold)
    /\ Len(args.event_types) > 0 => e.type \in SeqToSet(args.event_types)

\* CALL db.index.vector.queryNodes('event_embeddings', k, v): the sets of
\* (at most) k nearest indexed Events the index may yield
VectorCandidatesMutantNarrow(g, k, v) ==
    LET indexed == {i \in NodeIds(g) :
                      g.nodes[i].label = "Event" /\ g.nodes[i].embedding # NullN}
        sim(i)  == Similarity(v, g.nodes[i].embedding)
        half    == k \div 2
        size    == IF half < Cardinality(indexed) THEN half ELSE Cardinality(indexed)
    IN  {S \in SUBSET indexed :
            /\ Cardinality(S) = size
            /\ \A x \in S : \A y \in indexed \ S : sim(x) >= sim(y)}

VectorCandidates(g, k, v) ==
    LET indexed == {i \in NodeIds(g) :
                      g.nodes[i].label = "Event" /\ g.nodes[i].embedding # NullN}
        sim(i)  == Similarity(v, g.nodes[i].embedding)
        size    == IF k < Cardinality(indexed) THEN k ELSE Cardinality(indexed)
    IN  {S \in SUBSET indexed :
            /\ Cardinality(S) = size
            /\ \A x \in S : \A y \in indexed \ S : sim(x) >= sim(y)}

\* (score * 0.7 + e.significance * 0.3), in hundredths
FinalScoreMutantSwap(score, significance) ==
    IF score = NullN \/ significance = NullN THEN NullN
    ELSE 3 * score + 7 * significance

FinalScore(score, significance) ==
    IF score = NullN \/ significance = NullN THEN NullN
    ELSE 7 * score + 3 * significance

\* MATCH (e)-[:INVOLVES]->(entity) WHERE entity.id IN $involvesEntities:
\* one row per matching relationship
RECURSIVE RecallJoinInvolves(_, _, _)
RecallJoinInvolves(g, rows, ids) ==
    IF rows = <<>> THEN <<>>
    ELSE LET r == Head(rows)
             hits == {j \in RelIds(g) :
                        /\ g.rels[j].type = "INVOLVES"
                        /\ g.rels[j].src = r.e
                        /\ g.nodes[g.rels[j].dst].id \in ids}
         IN  [i \in 1..Cardinality(hits) |-> r] \o RecallJoinInvolves(g, Tail(rows), ids)

\* WITH e, final_score, collect(...) AS consolidations: one row per (e, final_score)
RECURSIVE DistinctRows(_)
DistinctRows(rows) ==
    IF rows = <<>> THEN <<>>
    ELSE LET rest == DistinctRows(SubSeq(rows, 1, Len(rows) - 1))
             last == rows[Len(rows)]
         IN  IF last \in SeqToSet(rest) THEN rest ELSE Append(rest, last)

RecallConsolidations(g, e) ==
    {[target |-> g.nodes[g.rels[j].dst].id,
      type |-> g.rels[j].p.consolidation_type,
      strength |-> g.rels[j].p.strength] :
        j \in {k \in RelIds(g) : g.rels[k].type = "CONSOLIDATED_TO" /\ g.rels[k].src = e}}

\* one memory of the response
RecallMemoryOf(g, args, row) ==
    [id |-> g.nodes[row.e].id,
     timestamp |-> g.nodes[row.e].timestamp,
     type |-> g.nodes[row.e].type,
     emotional_valence |-> g.nodes[row.e].emotional_valence,
     significance |-> g.nodes[row.e].significance,
     context_summary |-> g.nodes[row.e].context_summary,
     relevance_score |-> row.final_score,
     consolidations |-> IF args.include_consolidations
                        THEN RecallConsolidations(g, row.e) ELSE {}]

\* the rows before ORDER BY, for one choice of index candidates
RecallRows(g, args, cands) ==
    LET hasQuery == JsOrNullStr(args.query) # Null
        v        == generateEmbedding(<<args.query>>)
        start    == [i \in 1..Len(SetToSeq(cands)) |->
                       [e |-> SetToSeq(cands)[i],
                        score |-> IF hasQuery
                                  THEN Similarity(v, g.nodes[SetToSeq(cands)[i]].embedding)
                                  ELSE 5]]
        joined   == IF Len(args.involves_entities) > 0
                    THEN RecallJoinInvolves(g, start, SeqToSet(args.involves_entities))
                    ELSE start
        keep(r)  == RecallWhere(args, g.nodes[r.e])
        kept     == SelectSeq(joined, keep)
        scored   == [i \in 1..Len(kept) |->
                       [e |-> kept[i].e,
                        final_score |-> FinalScore(kept[i].score,
                                                   g.nodes[kept[i].e].significance)]]
    IN  IF args.include_consolidations THEN DistinctRows(scored) ELSE scored

RowScore(r) == r.final_score

handleRecallMemory(args, fault) ==
    LET now      == clock + 1
        limit    == RecallLimit(args)
        hasQuery == JsOrNullStr(args.query) # Null
        text     == RecallQueryText(args)
        events   == {i \in NodeIds(graph) : graph.nodes[i].label = "Event"}
        bad      == \/ fault.at = "stmt"
                    \/ ~WellFormed(text)
                    \/ limit < 0
                    \/ hasQuery /\ 2 * limit < 1
    IN  /\ clock' = now
        /\ transactions' = transactions
        /\ graph' = graph
        /\ sessions' = sessions
        /\ IF hasQuery /\ fault.at = "embed"
           THEN resp' = Failure("recall_memory", args, fault, "embedding error", 0)
           ELSE IF bad
           THEN resp' = Failure("recall_memory", args, fault, "statement error", 1)
           ELSE \E cands \in IF hasQuery
                             THEN VectorCandidates(graph, 2 * limit,
                                                   generateEmbedding(<<args.query>>))
                             ELSE {events} :
                \E sorted \in OrderedDesc(RecallRows(graph, args, cands), RowScore) :
                   LET out == Limit(sorted, limit)
                   IN  resp' = Success("recall_memory", args, fault,
                                       [memories |-> [i \in 1..Len(out) |->
                                                        RecallMemoryOf(graph, args, out[i])],
                                        count |-> Len(out)], 1)

-----------------------------------------------------------------------------
(* hippocampus_search_events *)

\* parseInt(limit) || 10, with `limit = 10` for an omitted limit
SearchLimit(args) ==
    IF args.limit = NullN \/ args.limit = 0 THEN DefaultLimit ELSE args.limit

\* the filters that go into whereClauses
SearchWhereCount(args) ==
    (IF args.time_range # <<>> THEN 1 ELSE 0)
    + (IF JsOrNullStr(args.place) # Null THEN 1 ELSE 0)
    + (IF JsOrNullStr(args.effects_on) # Null THEN 1 ELSE 0)

\* cypherQuery as the handler concatenates it
SearchQueryText(args) ==
    <<"MATCH">>
    \o (IF Len(args.participants) > 0 THEN <<"WITH", "MATCH", "WHERE">> ELSE <<>>)
    \o (IF Len(args.entities) > 0 THEN <<"WITH", "MATCH", "WHERE">> ELSE <<>>)
    \o (IF args.min_effect_intensity # NullN
        THEN <<"WITH", "MATCH", "WHERE">> ELSE <<>>)
    \o (IF SearchWhereCount(args) > 0 THEN <<"WHERE">> ELSE <<>>)
    \o <<"WITH", "OPTIONAL MATCH", "OPTIONAL MATCH", "OPTIONAL MATCH",
         "OPTIONAL MATCH", "OPTIONAL MATCH", "OPTIONAL MATCH",
         "RETURN", "ORDER BY", "LIMIT">>

\* the sources of the relationships of a type that end in node e
Sources(g, type, e) ==
    {g.rels[j].src : j \in {k \in RelIds(g) : g.rels[k].type = type /\ g.rels[k].dst = e}}

\* the targets of the relationships of a type that start in node e
Targets(g, type, e) ==
    {g.rels[j].dst : j \in {k \in RelIds(g) : g.rels[k].type = type /\ g.rels[k].src = e}}

\* MATCH (e)<-[:PARTICIPATED_IN]-(participant)
\* WHERE participant.name IN $participants OR participant.id IN $participants
SearchParticipantMutantName(g, e, names) ==
    \E n \in Sources(g, "PARTICIPATED_IN", e) :
        g.nodes[n].name # Null /\ g.nodes[n].name \in names

\* WHERE participant.name IN $participants OR participant.id IN $participants
SearchParticipant(g, e, names) ==
    \E n \in Sources(g, "PARTICIPATED_IN", e) :
        \/ g.nodes[n].name # Null /\ g.nodes[n].name \in names
        \/ g.nodes[n].id # Null /\ g.nodes[n].id \in names

\* MATCH (e)<-[:INVOLVED_IN]-(entity:Entity) WHERE entity.id IN $entities
SearchEntity(g, e, ids) ==
    \E n \in Sources(g, "INVOLVED_IN", e) :
        g.nodes[n].label = "Entity" /\ g.nodes[n].id # Null /\ g.nodes[n].id \in ids

\* MATCH (e)-[:HAD_EFFECT_ON]->(f:Effect) WHERE f.intensity >= $minIntensity
SearchIntensity(g, e, min) ==
    \E f \in Targets(g, "HAD_EFFECT_ON", e) :
        g.nodes[f].label = "Effect" /\ Ge(g.nodes[f].intensity, min)

\* whereClauses.join(' AND ') on an Event node
SearchWhere(g, args, e) ==
    /\ args.time_range # <<>> =>
          /\ Ge(g.nodes[e].happened_at, args.time_range[1])
          /\ Le(g.nodes[e].happened_at, args.time_range[2])
    /\ JsOrNullStr(args.place) # Null =>
          \E p \in Targets(g, "HELD_AT", e) :
              g.nodes[p].label = "Place" /\ g.nodes[p].name = args.place
    /\ JsOrNullStr(args.effects_on) # Null =>
          \E f \in Targets(g, "HAD_EFFECT_ON", e) :
              /\ g.nodes[f].label = "Effect"
              /\ \E t \in Targets(g, "WITH_RESPECT_TO", f) :
                    g.nodes[t].label = "Target" /\ g.nodes[t].id = args.effects_on

\* the Events left by WITH DISTINCT e
SearchMatches(g, args) ==
    {e \in NodeIds(g) :
        /\ g.nodes[e].label = "Event"
        /\ Len(args.participants) > 0 =>
              SearchParticipant(g, e, SeqToSet(args.participants))
        /\ Len(args.entities) > 0 => SearchEntity(g, e, SeqToSet(args.entities))
        /\ args.min_effect_intensity # NullN =>
              SearchIntensity(g, e, args.min_effect_intensity)
        /\ SearchWhere(g, args, e)}

\* the values of a property over the nodes of a label in a set, nulls dropped
CollectMutantEmpty(g, ns, label, key) == {}

Collect(g, ns, label, key) ==
    {g.nodes[n][key] : n \in {m \in ns : g.nodes[m].label = label}} \ {Null}

\* collect(DISTINCT {effect, valence, intensity, target}), then
\* .filter(e => e.effect)
SearchEffects(g, e) ==
    {[effect |-> g.nodes[ft[1]].summary, valence |-> g.nodes[ft[1]].valence,
      intensity |-> g.nodes[ft[1]].intensity, target |-> g.nodes[ft[2]].id] :
        ft \in {x \in NodeIds(g) \X NodeIds(g) :
                  /\ x[1] \in Targets(g, "HAD_EFFECT_ON", e)
                  /\ g.nodes[x[1]].label = "Effect"
                  /\ g.nodes[x[1]].summary # Null
                  /\ x[2] \in Targets(g, "WITH_RESPECT_TO", x[1])
                  /\ g.nodes[x[2]].label = "Target"}}

\* the grouping keys of RETURN: e.id, e.title, e.description, e.happened_at
\* and place.name, one per Event and Place it is held at (null without one)
SearchKeys(g, e) ==
    LET places == Collect(g, Targets(g, "HELD_AT", e), "Place", "name")
    IN  {[id |-> g.nodes[e].id, title |-> g.nodes[e].title,
          description |-> g.nodes[e].description, when |-> g.nodes[e].happened_at,
          where |-> w] : w \in IF places = {} THEN {Null} ELSE places}

\* one record of the result: the collections of a group, taken over every
\* Event that falls into it
SearchRecord(g, es, k) ==
    LET grp == {e \in es : k \in SearchKeys(g, e)}
    IN  [id |-> k.id, title |-> k.title, description |-> k.description,
         when |-> k.when,
         who |-> [people |-> UNION {Collect(g, Sources(g, "PARTICIPATED_IN", e),
                                            "Person", "name") : e \in grp},
                  agents |-> UNION {Collect(g, Sources(g, "PARTICIPATED_IN", e),
                                            "Agent", "id") : e \in grp}],
         what |-> UNION {Collect(g, Sources(g, "INVOLVED_IN", e), "Entity", "name") :
                            e \in grp},
         where |-> k.where,
         why |-> UNION {Collect(g, Targets(g, "CATALYZED_BY", e),
                                "Catalyst", "description") : e \in grp},
         effects |-> UNION {SearchEffects(g, e) : e \in grp}]

\* the rows the MATCH clauses of the supplied filters yield for one Event:
\* one per combination of a matching participant, a matching entity and
\* an effect of sufficient intensity
SearchWays(g, args, e) ==
    LET in(type)  == {k \in RelIds(g) : g.rels[k].type = type /\ g.rels[k].dst = e}
        out(type) == {k \in RelIds(g) : g.rels[k].type = type /\ g.rels[k].src = e}
        names     == SeqToSet(args.participants)
        ids       == SeqToSet(args.entities)
        who       == {k \in in("PARTICIPATED_IN") :
                        \/ g.nodes[g.rels[k].src].name # Null
                           /\ g.nodes[g.rels[k].src].name \in names
                        \/ g.nodes[g.rels[k].src].id # Null
                           /\ g.nodes[g.rels[k].src].id \in names}
        what      == {k \in in("INVOLVED_IN") :
                        /\ g.nodes[g.rels[k].src].label = "Entity"
                        /\ g.nodes[g.rels[k].src].id # Null
                        /\ g.nodes[g.rels[k].src].id \in ids}
        felt      == {k \in out("HAD_EFFECT_ON") :
                        /\ g.nodes[g.rels[k].dst].label = "Effect"
                        /\ Ge(g.nodes[g.rels[k].dst].intensity,
                              args.min_effect_intensity)}
    IN  (IF Len(args.participants) > 0 THEN Cardinality(who) ELSE 1)
        * (IF Len(args.entities) > 0 THEN Cardinality(what) ELSE 1)
        * (IF args.min_effect_intensity # NullN THEN Cardinality(felt) ELSE 1)

\* the rows that reach WITH DISTINCT e
RECURSIVE SearchJoined(_, _, _)
SearchJoined(g, args, es) ==
    IF es = <<>> THEN <<>>
    ELSE [i \in 1..SearchWays(g, args, Head(es)) |-> Head(es)]
         \o SearchJoined(g, args, Tail(es))

\* a projection that keeps one record per joined row
SearchRowsMutantPerRow(g, args) ==
    LET rows == SearchJoined(g, args, SetToSeq(SearchMatches(g, args)))
    IN  [i \in 1..Len(rows) |->
            SearchRecord(g, {rows[i]}, CHOOSE k \in SearchKeys(g, rows[i]) : TRUE)]

\* WITH DISTINCT e, then one record per group of RETURN
SearchRows(g, args) ==
    LET rows == SearchJoined(g, args, SetToSeq(SearchMatches(g, args)))
        es   == SeqToSet(rows)
    IN  SetToSeq({SearchRecord(g, es, k) : k \in UNION {SearchKeys(g, e) : e \in es}})

SearchWhen(r) == r.when

handleSearchEvents(args, fault) ==
    LET now   == clock + 1
        limit == SearchLimit(args)
        bad   == \/ fault.at = "stmt"
                 \/ ~WellFormed(SearchQueryText(args))
                 \/ limit < 0
    IN  /\ clock' = now
        /\ transactions' = transactions
        /\ graph' = graph
        /\ sessions' = sessions
        /\ IF bad
           THEN resp' = Failure("hippocampus_search_events", args, fault,
                                "statement error", 1)
           ELSE \E sorted \in OrderedDesc(SearchRows(graph, args), SearchWhen) :
                   LET out == Limit(sorted, limit)
                   IN  resp' = Success("hippocampus_search_events", args, fault,
                                       [events |-> out, count |-> Len(out)], 1)

-----------------------------------------------------------------------------
(* Initial state: an empty store, no call made yet *)

\* the callers that may have an evolve_bond call in flight at the same time
CallIds == {1, 2}

\* no call in flight; `before` is the store as the first call in flight found it
NoCalls ==
    [before |-> EmptyGraph,
     call |-> [c \in CallIds |-> [pc |-> "idle", args |-> NoProps, at |-> 0,
                                  result |-> NoProps]]]

\* the remote server right after app.listen: no SSE connection opened, no
\* message posted
NoSse == [transports |-> <<>>, posts |-> <<>>]

\* nothing has crossed the tool-call boundary yet
NoReply == [server |-> "none", success |-> TRUE, error |-> Null, elapsed |-> FALSE]

Init ==
    /\ graph = EmptyGraph
    /\ clock = 0
    /\ sessions = 0
    /\ resp = [op |-> "none", ok |-> TRUE, args |-> NoProps, fault |-> NoFault,
               error |-> Null, issued |-> 0, data |-> NoProps]
    /\ reply = NoReply
    /\ transactions = 0
    /\ calls = NoCalls
    /\ sse = NoSse

-----------------------------------------------------------------------------
(* Bond evolution: agents are written by hippocampus_write_event, then    *)
(* bonds between them evolve.                                              *)

MaxBondOps == 3

NoEvent ==
    [id |-> Null, title |-> "t", description |-> "d", happened_at |-> NullN,
     where |-> Null, who |-> <<>>, why |-> <<>>, what_entities |-> <<>>,
     what_produced |-> <<>>, effects |-> <<>>]

BondEventArgs ==
    {[event |-> [NoEvent EXCEPT !.where = "HQ",
                                !.who = <<[id |-> "a", type |-> "agent"],
                                          [id |-> "b", type |-> "agent"]>>,
                                !.effects = <<[summary |-> "s1",
                                               valence |-> "positive",
                                               intensity |-> 5,
                                               target_id |-> "a",
                                               target_kind |-> "AGENT"]>>]]}

BondArgs ==
    [from_entity_id : {"a", "b"}, to_entity_id : {"a", "b"},
     new_strength : {3, 6}, emotional_resonance : {NullN, 5},
     milestone : {Null, "m1"}, interaction_context : {Null}]

BondWriteEvent ==
    /\ clock < MaxBondOps
    /\ UNCHANGED <<reply, calls, sse>>
    /\ \E args \in BondEventArgs : handleWriteEvent(args, NoFault)

BondEvolve ==
    /\ clock < MaxBondOps
    /\ UNCHANGED <<reply, calls, sse>>
    /\ \E args \in BondArgs : handleEvolveBond(args, NoFault)

NextBond == BondWriteEvent \/ BondEvolve

SpecBond == Init /\ [][NextBond]_vars

\* the ordered pairs of nodes an evolve_bond call names by id
NamedPairs(g, a) ==
    {pr \in NodeIds(g) \X NodeIds(g) :
        /\ g.nodes[pr[1]].id = a.from_entity_id
        /\ g.nodes[pr[2]].id = a.to_entity_id}

BondProps(g, pr) ==
    g.rels[CHOOSE j \in RelsBetween(g, "BOND", pr[1], pr[2]) : TRUE].p

C1_Step ==
    (resp'.op = "evolve_bond" /\ resp'.ok /\ clock' # clock) =>
        LET a == resp'.args IN
        /\ NamedPairs(graph, a) # {}
        /\ \A pr \in NamedPairs(graph, a) :
            LET old == RelsBetween(graph, "BOND", pr[1], pr[2])
                b2  == BondProps(graph', pr)
            IN  /\ Cardinality(RelsBetween(graph', "BOND", pr[1], pr[2])) = 1
                /\ b2.strength = a.new_strength
                /\ Len(b2.evolution_trajectory) = b2.interaction_count
                /\ IF old = {}
                   THEN /\ b2.interaction_count = 1
                        /\ b2.first_interaction = b2.last_interaction
                        /\ Len(b2.evolution_trajectory) = 1
                        /\ b2.milestones = IF a.milestone # Null
                                           THEN <<a.milestone>> ELSE <<>>
                   ELSE LET b1 == BondProps(graph, pr)
                        IN  /\ b2.interaction_count = b1.interaction_count + 1
                            /\ Len(b2.evolution_trajectory) =
                                  Len(b1.evolution_trajectory) + 1

\* C1: every successful evolve_bond(A,B,s) leaves exactly one BOND edge from
\* A to B whose strength is s; the first call sets interaction_count 1,
\* first_interaction = last_interaction, a one-snapshot trajectory and
\* milestones [milestone] or []; every later call adds one to
\* interaction_count and one snapshot, so that after n calls the count and
\* the trajectory length are n and the strength is the last one supplied.
C1_BondUpsert == [][C1_Step]_vars

\* a pair evolved twice: count 2, the second strength, two snapshots
C1_Witness ==
    /\ resp.op = "evolve_bond" /\ resp.ok
    /\ resp.data.bond.interaction_count = 2
    /\ resp.data.bond.strength = 6
    /\ resp.data.bond.trajectory_length = 2
    /\ \E j \in RelIds(graph) :
          /\ graph.rels[j].type = "BOND"
          /\ graph.rels[j].p.interaction_count = 2
          /\ graph.rels[j].p.evolution_trajectory[1].strength = 3

-----------------------------------------------------------------------------
(* The two write pipelines under store and provider faults *)

MaxWriteOps == 2

Alice == [id |-> "Alice", type |-> "person"]
AgentA == [id |-> "a", type |-> "agent"]
EntityX == [id |-> "x", name |-> "X", kind |-> "module", meta |-> Null]
EffectOnA ==
    [summary |-> "s1", valence |-> "positive", intensity |-> 5,
     target_id |-> "a", target_kind |-> "AGENT"]

WriteEventArgs ==
    {[event |-> [NoEvent EXCEPT !.id = i, !.where = "HQ", !.who = who,
                                !.why = <<"r1">>, !.what_entities = <<EntityX>>,
                                !.what_produced = made, !.effects = <<EffectOnA>>]] :
        i \in {Null, "e1"}, who \in {<<Alice>>, <<Alice, AgentA>>},
        made \in {<<>>, <<EntityX>>}}

WriteFaults == {NoFault, StmtFault(1), StmtFault(3), StmtFault(6), CommitFault}

MemoryEvent ==
    [type |-> "conversation", timestamp |-> NullN, emotional_valence |-> 5,
     significance |-> 3, context_summary |-> "cats", full_content |-> Null]

WriteEncodeArgs ==
    {[event |-> [MemoryEvent EXCEPT !.emotional_valence = v, !.significance = g],
      involves |-> r[1], precedes |-> r[2], consolidates_to |-> r[3]] :
        v \in {5, 15, 0 - 15}, g \in {3, 15},
        r \in {<<<<>>, <<>>, <<>>>>,
               << <<[entity_id |-> "x", role |-> "subject", salience |-> 5]>>,
                  <<"e1">>,
                  <<[target_id |-> "x", strength |-> 5, type |-> "semantic"]>> >>}}

EncodeFaults ==
    {NoFault, EmbedFault, StmtFault(1), StmtFault(3), CommitFault, RereadFault}

WriteWriteEvent ==
    /\ clock < MaxWriteOps
    /\ UNCHANGED <<reply, calls, sse>>
    /\ \E args \in WriteEventArgs, fault \in WriteFaults :
          handleWriteEvent(args, fault)

WriteEncode ==
    /\ clock < MaxWriteOps
    /\ UNCHANGED <<reply, calls, sse>>
    /\ \E args \in WriteEncodeArgs, fault \in EncodeFaults :
          handleEncodeMemory(args, fault)

NextWrite == WriteWriteEvent \/ WriteEncode

SpecWrite == Init /\ [][NextWrite]_vars

\* a call is a step that advances the clock
Called(op) == clock' # clock /\ resp'.op = op

OutOfRange(event) ==
    \/ event.emotional_valence < 0 - 10
    \/ event.emotional_valence > 10
    \/ event.significance < 0
    \/ event.significance > 10

\* C2: encode_memory with emotional_valence outside [-1,1] or significance
\* outside [0,1] fails, sends no statement to the store and leaves the graph
\* exactly as it was.
C2_RangeRejection ==
    [][(Called("encode_memory") /\ OutOfRange(resp'.args.event)) =>
          (~resp'.ok /\ resp'.issued = 0 /\ graph' = graph)]_vars

\* a rejected call on a store that already holds nodes
C2_Witness ==
    /\ resp.op = "encode_memory"
    /\ resp.args.event.emotional_valence = 15
    /\ ~resp.ok
    /\ Len(graph.nodes) > 0

\* C3: in encode_memory and hippocampus_write_event, when a statement run
\* inside the transaction fails (the Event create or a later binding step)
\* the graph after the call is the graph before it: nothing the earlier
\* steps wrote remains.
C3_Rollback ==
    [][((Called("encode_memory") \/ Called("hippocampus_write_event"))
        /\ resp'.error = "statement error") =>
          (~resp'.ok /\ graph' = graph)]_vars

\* the sixth statement of a write_event failed after five had written, and
\* the store is still empty
C3_Witness ==
    /\ resp.op = "hippocampus_write_event"
    /\ resp.error = "statement error"
    /\ resp.issued = 6
    /\ graph = EmptyGraph

\* C4: whenever encode_memory reports failure, no Event of that call is in
\* the graph (the call's Event id is the UUID drawn at that clock tick).
C4_FailsAtomically ==
    (resp.op = "encode_memory" /\ ~resp.ok) =>
        ~EventIdTaken(graph, randomUUID(clock))

\* the reference nodes two distinct nodes may not share
SameReference(n, m) ==
    /\ n.label = m.label
    /\ \/ n.label = "Person" /\ n.name = m.name
       \/ n.label = "Agent" /\ n.id = m.id
       \/ n.label = "Entity" /\ n.id = m.id
       \/ n.label = "Place" /\ n.name = m.name
       \/ n.label = "Catalyst" /\ n.description = m.description
       \/ n.label = "Target" /\ n.id = m.id /\ n.kind = m.kind

\* C5: the graph never holds two Persons of one name, two Agents of one id,
\* two Entities of one id, two Places of one name, two Catalysts of one
\* description or two Targets of one (id, kind).
C5_ReferenceNodesUnique ==
    \A i, j \in NodeIds(graph) :
        i # j => ~SameReference(graph.nodes[i], graph.nodes[j])

\* two Events that both have Alice as participant and were held at HQ
C5_Witness ==
    \E e1, e2 \in NodeIds(graph) :
        /\ e1 # e2
        /\ graph.nodes[e1].label = "Event" /\ graph.nodes[e2].label = "Event"
        /\ \E p \in MatchNodes(graph, "Person", "name", "Alice") :
              /\ RelsBetween(graph, "PARTICIPATED_IN", p, e1) # {}
              /\ RelsBetween(graph, "PARTICIPATED_IN", p, e2) # {}
        /\ \E h \in MatchNodes(graph, "Place", "name", "HQ") :
              /\ RelsBetween(graph, "HELD_AT", e1, h) # {}
              /\ RelsBetween(graph, "HELD_AT", e2, h) # {}

-----------------------------------------------------------------------------
(* Recall: memories are encoded, episodes are written, and recall_memory   *)
(* reads them back.                                                        *)

MaxRecallOps == 3

RecallEncodeArgs ==
    {[event |-> [MemoryEvent EXCEPT !.significance = g, !.context_summary = c],
      involves |-> <<>>, precedes |-> <<>>, consolidates_to |-> <<>>] :
        g \in {3, 7}, c \in {"cats", "rain"}}

RecallEventArgs == {[event |-> [NoEvent EXCEPT !.where = "HQ", !.who = <<Alice>>]]}

RecallArgs ==
    [query : {Null, "cats"}, emotional_range : {<<>>}, temporal_range : {<<>>},
     significance_threshold : {NullN, 3, 5}, involves_entities : {<<>>},
     event_types : {<<>>}, limit : {NullN, 1}, include_consolidations : {FALSE}]

RecallEncode ==
    /\ clock < MaxRecallOps
    /\ UNCHANGED <<reply, calls, sse>>
    /\ \E args \in RecallEncodeArgs : handleEncodeMemory(args, NoFault)

RecallWriteEvent ==
    /\ clock < MaxRecallOps
    /\ UNCHANGED <<reply, calls, sse>>
    /\ \E args \in RecallEventArgs : handleWriteEvent(args, NoFault)

RecallRecall ==
    /\ clock < MaxRecallOps
    /\ UNCHANGED <<reply, calls, sse>>
    /\ \E args \in RecallArgs : handleRecallMemory(args, NoFault)

NextRecall == RecallEncode \/ RecallWriteEvent \/ RecallRecall

SpecRecall == Init /\ [][NextRecall]_vars

\* the ids of the memories in a recall_memory response
ReturnedIds(r) == {r.data.memories[i].id : i \in 1..Len(r.data.memories)}

\* the memories of a response come in descending order of significance
BySignificance(r) ==
    \A i, j \in 1..Len(r.data.memories) :
        i < j => r.data.memories[i].significance >= r.data.memories[j].significance

\* a successful recall_memory call with no query string and a threshold
ThresholdRecall ==
    /\ Called("recall_memory") /\ resp'.ok
    /\ resp'.args.query = Null
    /\ resp'.args.significance_threshold # NullN

\* the Event the call before this one encoded, if it encoded one
JustEncoded == MatchNodes(graph, "Event", "id", randomUUID(clock))

\* the other Events that pass the threshold t with a significance not below n's
NotBelow(g, n, t) ==
    {m \in NodeIds(g) \ {n} :
        /\ g.nodes[m].label = "Event"
        /\ Ge(g.nodes[m].significance, t)
        /\ g.nodes[m].significance >= g.nodes[n].significance}

\* C6 as stated: encode_memory followed by recall_memory with no query and a
\* significance_threshold t returns the new Event whenever its significance
\* is at least t, whatever the store holds, and the returned Events are in
\* descending order of significance.
C6_AlwaysRecalled ==
    [][ThresholdRecall =>
          /\ \A n \in JustEncoded :
                graph.nodes[n].significance >= resp'.args.significance_threshold
                    => graph.nodes[n].id \in ReturnedIds(resp')
          /\ BySignificance(resp')]_vars

\* C6: encode_memory followed by recall_memory with no query and a
\* significance_threshold t returns the new Event whenever its significance
\* is at least t and fewer than `limit` other Events that pass the threshold
\* have a significance at least as high as its own; the returned Events all
\* pass the threshold and are in descending order of significance.
C6_RecalledWithinLimit ==
    [][ThresholdRecall =>
          LET t == resp'.args.significance_threshold IN
          /\ \A n \in JustEncoded :
                (/\ graph.nodes[n].significance >= t
                 /\ Cardinality(NotBelow(graph, n, t)) < RecallLimit(resp'.args))
                    => graph.nodes[n].id \in ReturnedIds(resp')
          /\ \A i \in 1..Len(resp'.data.memories) :
                resp'.data.memories[i].significance >= t
          /\ BySignificance(resp')]_vars

\* the Event just encoded comes back second, behind a more significant one
C6_Witness ==
    /\ resp.op = "recall_memory" /\ resp.ok
    /\ resp.args.query = Null /\ resp.args.significance_threshold = 3
    /\ Len(resp.data.memories) = 2
    /\ resp.data.memories[1].significance = 7
    /\ resp.data.memories[2].id = randomUUID(clock - 1)
    /\ resp.data.memories[2].significance = 3

\* the similarity a recall_memory call gives an Event: the index's score with
\* a query, the constant 0.5 without
ScoreOf(g, args, id) ==
    IF args.query = Null THEN 5
    ELSE Similarity(generateEmbedding(<<args.query>>),
                    g.nodes[CHOOSE n \in MatchNodes(g, "Event", "id", id) : TRUE].embedding)

C7_Step ==
    (Called("recall_memory") /\ resp'.ok) =>
        LET ms   == resp'.data.memories
            a    == resp'.args
            sim(i) == ScoreOf(graph, a, ms[i].id)
            scored == {i \in 1..Len(ms) : ms[i].significance # NullN}
            pass == {n \in NodeIds(graph) :
                        /\ graph.nodes[n].label = "Event"
                        /\ RecallWhere(a, graph.nodes[n])}
        IN  /\ Len(ms) <= RecallLimit(a)
            /\ resp'.data.count = Len(ms)
            /\ \A i \in scored :
                  ms[i].relevance_score = 7 * sim(i) + 3 * ms[i].significance
            /\ \A i, j \in scored :
                  i < j => ms[i].relevance_score >= ms[j].relevance_score
            /\ \A i, j \in scored :
                  (sim(i) = sim(j) /\ ms[i].significance > ms[j].significance)
                      => i < j
            /\ a.query = Null =>
                  /\ Len(ms) = IF Cardinality(pass) < RecallLimit(a)
                               THEN Cardinality(pass) ELSE RecallLimit(a)
                  /\ \A n \in pass :
                        (graph.nodes[n].id \notin ReturnedIds(resp')
                         /\ graph.nodes[n].significance # NullN)
                            => \A i \in scored :
                                  ms[i].significance >= graph.nodes[n].significance

\* C7: a successful recall_memory returns at most `limit` memories, each
\* scored 0.7 * similarity + 0.3 * significance, in descending order of that
\* score (among the memories that have one); of two returned Events with the
\* same similarity the more significant comes strictly first, and without a
\* query nothing left out by the truncation outranks a returned memory.
C7_RankedAndTruncated == [][C7_Step]_vars

\* a query recall returning two Events of equal similarity, the more
\* significant first
C7_Witness ==
    /\ resp.op = "recall_memory" /\ resp.ok
    /\ resp.args.query = "cats"
    /\ Len(resp.data.memories) = 2
    /\ resp.data.memories[1].context_summary = "cats"
    /\ resp.data.memories[2].context_summary = "cats"
    /\ resp.data.memories[1].significance = 7
    /\ resp.data.memories[2].significance = 3
    /\ resp.data.memories[1].relevance_score = 91
    /\ resp.data.memories[2].relevance_score = 79

-----------------------------------------------------------------------------
(* Search: episodes are written (and memories encoded), and                *)
(* hippocampus_search_events reconstructs them from cues.                  *)

MaxSearchOps == 3

SearchEventArgs ==
    {[event |-> [NoEvent EXCEPT !.happened_at = h, !.where = p[1], !.who = p[2],
                                !.why = <<"r1">>, !.what_entities = <<EntityX>>,
                                !.effects = <<EffectOnA>>]] :
        h \in {NullN, 5},
        p \in {<<"HQ", <<Alice, AgentA>> >>, <<"Lab", <<Alice>> >>}}

SearchEncodeArgs ==
    {[event |-> MemoryEvent, involves |-> <<>>, precedes |-> <<>>,
      consolidates_to |-> <<>>]}

\* every combination of the six filters with the default limit, and the
\* limit 1 with at most the participants filter
SearchArgs ==
    {a \in [semantic_query : {Null}, time_range : {<<>>, <<1, 2>>},
            participants : {<<>>, <<"Alice">>, <<"a">>}, entities : {<<>>, <<"x">>},
            place : {Null, "HQ"}, effects_on : {Null, "a"},
            min_effect_intensity : {NullN, 5}, limit : {NullN, 1}] :
        a.limit # NullN =>
            /\ a.time_range = <<>> /\ a.entities = <<>> /\ a.place = Null
            /\ a.effects_on = Null /\ a.min_effect_intensity = NullN}

SearchWriteEvent ==
    /\ clock < MaxSearchOps
    /\ UNCHANGED <<reply, calls, sse>>
    /\ \E args \in SearchEventArgs : handleWriteEvent(args, NoFault)

SearchEncode ==
    /\ clock < MaxSearchOps
    /\ UNCHANGED <<reply, calls, sse>>
    /\ \E args \in SearchEncodeArgs : handleEncodeMemory(args, NoFault)

SearchSearch ==
    /\ clock < MaxSearchOps
    /\ UNCHANGED <<reply, calls, sse>>
    /\ \E args \in SearchArgs : handleSearchEvents(args, NoFault)

NextSearch == SearchWriteEvent \/ SearchEncode \/ SearchSearch

SpecSearch == Init /\ [][NextSearch]_vars

\* no filter is supplied
NoFilter(a) ==
    /\ a.time_range = <<>> /\ a.participants = <<>> /\ a.entities = <<>>
    /\ a.place = Null /\ a.effects_on = Null /\ a.min_effect_intensity = NullN

\* the Events that satisfy every supplied filter
Satisfying(g, a) ==
    {e \in NodeIds(g) :
        /\ g.nodes[e].label = "Event"
        /\ a.time_range # <<>> =>
              /\ g.nodes[e].happened_at # NullN
              /\ g.nodes[e].happened_at >= a.time_range[1]
              /\ g.nodes[e].happened_at <= a.time_range[2]
        /\ a.participants # <<>> =>
              \E n \in Sources(g, "PARTICIPATED_IN", e) :
                  \E i \in 1..Len(a.participants) :
                      a.participants[i] \in {g.nodes[n].name, g.nodes[n].id}
        /\ a.entities # <<>> =>
              \E n \in Sources(g, "INVOLVED_IN", e) :
                  \E i \in 1..Len(a.entities) : a.entities[i] = g.nodes[n].id
        /\ a.place # Null =>
              \E p \in Targets(g, "HELD_AT", e) : g.nodes[p].name = a.place
        /\ a.effects_on # Null =>
              \E f \in Targets(g, "HAD_EFFECT_ON", e) :
                  \E t \in Targets(g, "WITH_RESPECT_TO", f) :
                      g.nodes[t].id = a.effects_on
        /\ a.min_effect_intensity # NullN =>
              \E f \in Targets(g, "HAD_EFFECT_ON", e) :
                  /\ g.nodes[f].intensity # NullN
                  /\ g.nodes[f].intensity >= a.min_effect_intensity}

FoundIds(r) == {r.data.events[i].id : i \in 1..Len(r.data.events)}

\* C8: hippocampus_search_events with any non-empty combination of its
\* filters succeeds and returns exactly the Events that satisfy all the
\* supplied filters (up to limit).
C8_FiltersIntersect ==
    [][(Called("hippocampus_search_events") /\ ~NoFilter(resp'.args)) =>
          LET sat == {graph.nodes[e].id : e \in Satisfying(graph, resp'.args)}
          IN  /\ resp'.ok
              /\ FoundIds(resp') \subseteq sat
              /\ Cardinality(sat) <= SearchLimit(resp'.args) => FoundIds(resp') = sat]_vars

\* the record hippocampus_search_events owes an Event, read off the graph
Episode(g, e) ==
    [id |-> g.nodes[e].id, title |-> g.nodes[e].title,
     description |-> g.nodes[e].description, when |-> g.nodes[e].happened_at,
     who |-> [people |-> {g.nodes[n].name :
                            n \in {m \in Sources(g, "PARTICIPATED_IN", e) :
                                     g.nodes[m].label = "Person"}},
              agents |-> {g.nodes[n].id :
                            n \in {m \in Sources(g, "PARTICIPATED_IN", e) :
                                     g.nodes[m].label = "Agent"}}],
     what |-> {g.nodes[n].name : n \in Sources(g, "INVOLVED_IN", e)},
     where |-> IF Targets(g, "HELD_AT", e) = {} THEN Null
               ELSE g.nodes[CHOOSE p \in Targets(g, "HELD_AT", e) : TRUE].name,
     why |-> {g.nodes[n].description : n \in Targets(g, "CATALYZED_BY", e)},
     effects |-> {[effect |-> g.nodes[f].summary, valence |-> g.nodes[f].valence,
                   intensity |-> g.nodes[f].intensity,
                   target |-> g.nodes[CHOOSE t \in Targets(g, "WITH_RESPECT_TO", f) :
                                         TRUE].id] :
                    f \in Targets(g, "HAD_EFFECT_ON", e)}]

\* the blocks of an episode as a hippocampus_write_event payload states them
Written(ev) ==
    [who |-> [people |-> {ev.who[i].id :
                            i \in {k \in 1..Len(ev.who) : ev.who[k].type = "person"}},
              agents |-> {ev.who[i].id :
                            i \in {k \in 1..Len(ev.who) : ev.who[k].type = "agent"}}],
     what |-> {ev.what_entities[i].name : i \in 1..Len(ev.what_entities)},
     where |-> ev.where,
     why |-> {ev.why[i] : i \in 1..Len(ev.why)},
     effects |-> {[effect |-> ev.effects[i].summary, valence |-> ev.effects[i].valence,
                   intensity |-> ev.effects[i].intensity,
                   target |-> ev.effects[i].target_id] : i \in 1..Len(ev.effects)}]

Blocks(r) ==
    [who |-> r.who, what |-> r.what, where |-> r.where, why |-> r.why,
     effects |-> r.effects]

C9_Step ==
    (Called("hippocampus_search_events") /\ NoFilter(resp'.args)) =>
        LET events == {e \in NodeIds(graph) : graph.nodes[e].label = "Event"}
            limit  == SearchLimit(resp'.args)
            out    == resp'.data.events
            dated  == {i \in 1..Len(out) : out[i].when # NullN}
        IN  /\ resp'.ok
            /\ Len(out) = IF Cardinality(events) < limit
                          THEN Cardinality(events) ELSE limit
            /\ resp'.data.count = Len(out)
            /\ \A i, j \in dated : i < j => out[i].when >= out[j].when
            /\ \A i, j \in 1..Len(out) : i # j => out[i].id # out[j].id
            /\ \A i \in 1..Len(out) :
                  \E e \in events : out[i] = Episode(graph, e)
            /\ \A e \in events :
                  (graph.nodes[e].id \notin FoundIds(resp')
                   /\ graph.nodes[e].happened_at # NullN)
                      => \A i \in dated : out[i].when >= graph.nodes[e].happened_at
            /\ (resp.op = "hippocampus_write_event" /\ resp.ok) =>
                  \A i \in 1..Len(out) :
                      out[i].id = resp.data.event_id
                          => Blocks(out[i]) = Written(resp.args.event)

\* C9: hippocampus_search_events without any filter succeeds and returns
\* min(limit, number of Events) distinct Events, most recent happened_at
\* first (among those that have one), nothing left out being more recent
\* than a returned one; every record carries the Event's whole bound
\* structure, and the record of the Event written by the call just before
\* shows exactly the people, agents, entities, place, catalysts and effects
\* of that call's payload.
C9_NoFilterCompletes == [][C9_Step]_vars

\* two episodes come back, the later first, the second one with two
\* participants and every block filled
C9_Witness ==
    /\ resp.op = "hippocampus_search_events" /\ resp.ok
    /\ NoFilter(resp.args)
    /\ Len(resp.data.events) = 2
    /\ resp.data.events[1].when > resp.data.events[2].when
    /\ resp.data.events[2].who = [people |-> {"Alice"}, agents |-> {"a"}]
    /\ resp.data.events[2].what = {"X"}
    /\ resp.data.events[2].where = "HQ"
    /\ resp.data.events[2].why = {"r1"}
    /\ resp.data.events[2].effects # {}

\* a search by exactly one participant of the episode written just before
AfterWriteByParticipant ==
    /\ resp.op = "hippocampus_write_event" /\ resp.ok
    /\ Called("hippocampus_search_events")
    /\ Len(resp'.args.participants) = 1
    /\ \E i \in 1..Len(resp.args.event.who) :
          resp.args.event.who[i].id = resp'.args.participants[1]
    /\ NoFilter([resp'.args EXCEPT !.participants = <<>>])

\* the positions of the episode written just before in the search result
Hits == {i \in 1..Len(resp'.data.events) :
            resp'.data.events[i].id = resp.data.event_id}

Reconstructed ==
    \A i \in Hits :
        /\ resp'.data.events[i].where = resp.args.event.where
        /\ resp'.data.events[i].who = Written(resp.args.event).who

\* the other Events with the participant that are at least as recent
AsRecent(g, id, name) ==
    {e \in NodeIds(g) :
        /\ g.nodes[e].label = "Event" /\ g.nodes[e].id # id
        /\ \E n \in Sources(g, "PARTICIPATED_IN", e) :
              name \in {g.nodes[n].name, g.nodes[n].id}
        /\ \E w \in MatchNodes(g, "Event", "id", id) :
              g.nodes[e].happened_at >= g.nodes[w].happened_at}

\* C10 as stated: after hippocampus_write_event writes an Event with
\* participants P at place W, a search by any one participant of P returns
\* that Event exactly once, with where = W and all of P in its who block.
C10_AlwaysFound ==
    [][AfterWriteByParticipant =>
          (resp'.ok /\ Cardinality(Hits) = 1 /\ Reconstructed)]_vars

\* C10: after hippocampus_write_event writes an Event with participants P
\* at place W, a search by one participant of P succeeds and returns that
\* Event at most once, and exactly once when fewer than `limit` other
\* Events with that participant are at least as recent; where it is
\* returned, where = W and its who block holds all of P.
C10_FoundWithinLimit ==
    [][AfterWriteByParticipant =>
          /\ resp'.ok
          /\ Cardinality(Hits) <= 1
          /\ Cardinality(AsRecent(graph, resp.data.event_id, resp'.args.participants[1]))
                < SearchLimit(resp'.args) => Cardinality(Hits) = 1
          /\ Reconstructed]_vars

\* the episode of Alice and agent a at HQ, found again through the agent
\* among two episodes
C10_Witness ==
    /\ resp.op = "hippocampus_search_events" /\ resp.ok
    /\ resp.args.participants = <<"a">>
    /\ NoFilter([resp.args EXCEPT !.participants = <<>>])
    /\ Len(resp.data.events) = 2
    /\ \E i \in 1..2 :
          /\ resp.data.events[i].id = AutoEventId(clock - 1)
          /\ resp.data.events[i].where = "HQ"
          /\ resp.data.events[i].who = [people |-> {"Alice"}, agents |-> {"a"}]

-----------------------------------------------------------------------------
(* Search by cues an episode answers in several ways *)

MaxDedupOps == 3

EntityY == [id |-> "y", name |-> "Y", kind |-> "module", meta |-> Null]
EffectOnB ==
    [summary |-> "s2", valence |-> "negative", intensity |-> 8,
     target_id |-> "b", target_kind |-> "AGENT"]

DedupEventArgs ==
    {[event |-> [NoEvent EXCEPT !.happened_at = h, !.where = "HQ",
                                !.who = <<Alice, AgentA>>,
                                !.what_entities = <<EntityX, EntityY>>,
                                !.effects = <<EffectOnA, EffectOnB>>]] :
        h \in {NullN, 5}}

DedupArgs ==
    [semantic_query : {Null}, time_range : {<<>>},
     participants : {<<>>, <<"Alice", "a">>}, entities : {<<>>, <<"x", "y">>},
     place : {Null, "HQ"}, effects_on : {Null},
     min_effect_intensity : {NullN, 5}, limit : {NullN}]

DedupWriteEvent ==
    /\ clock < MaxDedupOps
    /\ UNCHANGED <<reply, calls, sse>>
    /\ \E args \in DedupEventArgs : handleWriteEvent(args, NoFault)

DedupSearch ==
    /\ clock < MaxDedupOps
    /\ UNCHANGED <<reply, calls, sse>>
    /\ \E args \in DedupArgs : handleSearchEvents(args, NoFault)

NextDedup == DedupWriteEvent \/ DedupSearch

SpecDedup == Init /\ [][NextDedup]_vars

\* C11: a successful hippocampus_search_events never returns the same Event
\* identifier twice, whatever filters are combined and in however many ways
\* an Event matches them.
C11_NoDuplicateEvents ==
    [][(Called("hippocampus_search_events") /\ resp'.ok) =>
          \A i, j \in 1..Len(resp'.data.events) :
              i # j => resp'.data.events[i].id # resp'.data.events[j].id]_vars

\* two episodes, each matching through two participants, two entities and
\* two effects, come back once each
C11_Witness ==
    /\ resp.op = "hippocampus_search_events" /\ resp.ok
    /\ resp.args.participants = <<"Alice", "a">>
    /\ resp.args.entities = <<"x", "y">>
    /\ resp.args.min_effect_intensity = 5
    /\ Len(resp.data.events) = 2
    /\ \A e \in SearchMatches(graph, resp.args) : SearchWays(graph, resp.args, e) = 8

-----------------------------------------------------------------------------
(* Recall under combinations of the structured filters *)

MaxFilterOps == 3

FilterEventArgs == {[event |-> [NoEvent EXCEPT !.what_entities = <<EntityX>>]]}

FilterEncodeArgs ==
    {[event |-> [MemoryEvent EXCEPT !.significance = g],
      involves |-> inv, precedes |-> <<>>, consolidates_to |-> <<>>] :
        g \in {3, 7},
        inv \in {<<>>, <<[entity_id |-> "x", role |-> "subject", salience |-> 5]>>}}

FilterArgs ==
    [query : {Null, "cats"}, emotional_range : {<<>>, <<0, 10>>},
     temporal_range : {<<>>, <<1, 3>>}, significance_threshold : {NullN, 5},
     involves_entities : {<<>>, <<"x">>}, event_types : {<<>>, <<"conversation">>},
     limit : {NullN}, include_consolidations : {FALSE}]

FilterWriteEvent ==
    /\ clock < MaxFilterOps
    /\ UNCHANGED <<reply, calls, sse>>
    /\ \E args \in FilterEventArgs : handleWriteEvent(args, NoFault)

FilterEncode ==
    /\ clock < MaxFilterOps
    /\ UNCHANGED <<reply, calls, sse>>
    /\ \E args \in FilterEncodeArgs : handleEncodeMemory(args, NoFault)

FilterRecall ==
    /\ clock < MaxFilterOps
    /\ UNCHANGED <<reply, calls, sse>>
    /\ \E args \in FilterArgs : handleRecallMemory(args, NoFault)

NextFilter == FilterWriteEvent \/ FilterEncode \/ FilterRecall

SpecFilter == Init /\ [][NextFilter]_vars

\* a returned memory satisfies every structured filter of the call
Filtered(g, a, m) ==
    /\ a.emotional_range # <<>> =>
          /\ m.emotional_valence >= a.emotional_range[1]
          /\ m.emotional_valence <= a.emotional_range[2]
    /\ a.temporal_range # <<>> =>
          /\ m.timestamp >= a.temporal_range[1]
          /\ m.timestamp <= a.temporal_range[2]
    /\ a.significance_threshold # NullN => m.significance >= a.significance_threshold
    /\ a.event_types # <<>> => \E i \in 1..Len(a.event_types) : m.type = a.event_types[i]
    /\ a.involves_entities # <<>> =>
          \E e \in MatchNodes(g, "Event", "id", m.id) :
              \E n \in Targets(g, "INVOLVES", e) :
                  \E i \in 1..Len(a.involves_entities) :
                      g.nodes[n].id = a.involves_entities[i]

\* C12: recall_memory with any combination of its structured filters, with
\* or without a query, succeeds, and every returned Event satisfies all the
\* supplied filters.
C12_FiltersCompose ==
    [][Called("recall_memory") =>
          /\ resp'.ok
          /\ \A i \in 1..Len(resp'.data.memories) :
                Filtered(graph, resp'.args, resp'.data.memories[i])]_vars

-----------------------------------------------------------------------------
(* Limits outside the documented range *)

MaxLimitOps == 3

LimitValues == {NullN, 0, 0 - 1, 1, 101}

LimitEventArgs ==
    {[event |-> [NoEvent EXCEPT !.where = w, !.who = <<Alice>>]] : w \in {"HQ", "Lab"}}

LimitEncodeArgs ==
    {[event |-> [MemoryEvent EXCEPT !.significance = g],
      involves |-> <<>>, precedes |-> <<>>, consolidates_to |-> <<>>] : g \in {3, 7}}

LimitRecallArgs ==
    [query : {Null, "cats"}, emotional_range : {<<>>}, temporal_range : {<<>>},
     significance_threshold : {NullN}, involves_entities : {<<>>},
     event_types : {<<>>}, limit : LimitValues, include_consolidations : {FALSE}]

LimitSearchArgs ==
    [semantic_query : {Null}, time_range : {<<>>}, participants : {<<>>},
     entities : {<<>>}, place : {Null}, effects_on : {Null},
     min_effect_intensity : {NullN}, limit : LimitValues]

LimitWriteEvent ==
    /\ clock < MaxLimitOps
    /\ UNCHANGED <<reply, calls, sse>>
    /\ \E args \in LimitEventArgs : handleWriteEvent(args, NoFault)

LimitEncode ==
    /\ clock < MaxLimitOps
    /\ UNCHANGED <<reply, calls, sse>>
    /\ \E args \in LimitEncodeArgs : handleEncodeMemory(args, NoFault)

LimitRecall ==
    /\ clock < MaxLimitOps
    /\ UNCHANGED <<reply, calls, sse>>
    /\ \E args \in LimitRecallArgs : handleRecallMemory(args, NoFault)

LimitSearch ==
    /\ clock < MaxLimitOps
    /\ UNCHANGED <<reply, calls, sse>>
    /\ \E args \in LimitSearchArgs : handleSearchEvents(args, NoFault)

NextLimit == LimitWriteEvent \/ LimitEncode \/ LimitRecall \/ LimitSearch

SpecLimit == Init /\ [][NextLimit]_vars

\* min(max(limit, 1), 100), and 10 for an omitted limit
Clamped(limit) ==
    IF limit = NullN THEN 10
    ELSE IF limit < 1 THEN 1
    ELSE IF limit > 100 THEN 100 ELSE limit

\* C13: recall_memory and hippocampus_search_events accept every limit,
\* 0, negative values and values above 100 included, and return at most
\* min(max(limit, 1), 100) results, at most 10 when no limit is supplied.
C13_LimitClamped ==
    [][(Called("recall_memory") \/ Called("hippocampus_search_events")) =>
          /\ resp'.ok
          /\ resp'.data.count <= Clamped(resp'.args.limit)]_vars

-----------------------------------------------------------------------------
(* The tool-call boundary of the stdio server and of the remote server *)

\* The stdio dispatcher hands its context object {driver, openai,
\* generateEmbedding} to the extension handlers in the place of the driver:
\* their first statement, driver.session(), throws a TypeError.
HipThroughContext(name, args) ==
    /\ clock' = clock + 1
    /\ transactions' = transactions
    /\ graph' = graph
    /\ sessions' = sessions
    /\ resp' = Failure(name, args, NoFault, "driver.session is not a function", 0)

\* default: throw new Error(`Unknown tool: ...`)
UnknownTool(name) ==
    /\ clock' = clock + 1
    /\ transactions' = transactions
    /\ graph' = graph
    /\ sessions' = sessions
    /\ resp' = Failure(name, NoProps, NoFault, "Unknown tool", 0)

\* what the stdio dispatcher returns: the handler's object, or from its
\* catch {success: false, error, metadata: {execution_time_ms}}
StdioReply(r) ==
    [server |-> "stdio", success |-> r.ok, error |-> r.error, elapsed |-> TRUE]

\* the remote server's handleEncodeMemory: one auto-commit CREATE
RemoteEncodeMemory(args, fault) ==
    LET now       == clock + 1
        event     == args.event
        eventId   == randomUUID(now)
        timestamp == IF event.timestamp = NullN THEN now ELSE event.timestamp
        embedding == generateEmbedding(<<event.context_summary>>)
        failAt    == FirstFailure(EventIdTaken(graph, eventId), 1, fault)
    IN  /\ clock' = now
        /\ transactions' = transactions
        /\ sessions' = sessions
        /\ IF fault.at = "embed"
           THEN /\ graph' = graph
                /\ resp' = Failure("encode_memory", args, fault, "embedding error", 0)
           ELSE IF failAt > 0
           THEN /\ graph' = graph
                /\ resp' = Failure("encode_memory", args, fault, "statement error", 1)
           ELSE /\ graph' = EncCreateEvent(graph, eventId, timestamp, event, embedding)
                /\ resp' = Success("encode_memory", args, fault,
                                   [event_id |-> eventId, timestamp |-> timestamp], 1)

\* the remote server's handleRecallMemory: the index's neighbours of the
\* query, best first; nothing without a query
RemoteRecallMemory(args, fault) ==
    LET now      == clock + 1
        limit    == RecallLimit(args)
        hasQuery == JsOrNullStr(args.query) # Null
        v        == generateEmbedding(<<args.query>>)
        sim(r)   == r.score
    IN  /\ clock' = now
        /\ transactions' = transactions
        /\ graph' = graph
        /\ sessions' = sessions
        /\ IF ~hasQuery
           THEN resp' = Success("recall_memory", args, fault, [memories |-> <<>>], 0)
           ELSE IF fault.at = "embed"
           THEN resp' = Failure("recall_memory", args, fault, "embedding error", 0)
           ELSE IF fault.at = "stmt" \/ limit < 1
           THEN resp' = Failure("recall_memory", args, fault, "statement error", 1)
           ELSE \E cands \in VectorCandidates(graph, limit, v) :
                \E sorted \in OrderedDesc(
                        [i \in 1..Cardinality(cands) |->
                            [id |-> graph.nodes[SetToSeq(cands)[i]].id,
                             context_summary |->
                                graph.nodes[SetToSeq(cands)[i]].context_summary,
                             emotional_valence |->
                                graph.nodes[SetToSeq(cands)[i]].emotional_valence,
                             score |-> Similarity(v,
                                          graph.nodes[SetToSeq(cands)[i]].embedding)]],
                        sim) :
                   resp' = Success("recall_memory", args, fault,
                                   [memories |-> Limit(sorted, limit),
                                    count |-> Len(Limit(sorted, limit))], 1)

\* what the remote dispatcher returns: the handler's object (without
\* metadata when recall_memory has no query), or from its catch
\* {success: false, error}
RemoteReply(r) ==
    [server |-> "remote", success |-> r.ok, error |-> r.error,
     elapsed |-> r.ok /\ ~(r.op = "recall_memory" /\ r.issued = 0)]

MaxBoundaryOps == 3

BoundaryEncodeArgs ==
    {[event |-> [MemoryEvent EXCEPT !.significance = g],
      involves |-> <<>>, precedes |-> <<>>, consolidates_to |-> <<>>] : g \in {3, 15}}

BoundaryRecallArgs ==
    [query : {Null, "cats"}, emotional_range : {<<>>}, temporal_range : {<<>>},
     significance_threshold : {NullN}, involves_entities : {<<>>},
     event_types : {<<>>}, limit : {NullN}, include_consolidations : {FALSE}]

BoundaryFaults == {NoFault, EmbedFault, StmtFault(1)}

StdioEncode ==
    /\ clock < MaxBoundaryOps
    /\ \E args \in BoundaryEncodeArgs, fault \in BoundaryFaults :
          handleEncodeMemory(args, fault)
    /\ reply' = StdioReply(resp')
    /\ UNCHANGED <<calls, sse>>

StdioRecall ==
    /\ clock < MaxBoundaryOps
    /\ \E args \in BoundaryRecallArgs, fault \in BoundaryFaults :
          handleRecallMemory(args, fault)
    /\ reply' = StdioReply(resp')
    /\ UNCHANGED <<calls, sse>>

StdioWriteEvent ==
    /\ clock < MaxBoundaryOps
    /\ \E args \in RecallEventArgs : HipThroughContext("hippocampus_write_event", args)
    /\ reply' = StdioReply(resp')
    /\ UNCHANGED <<calls, sse>>

StdioUnknown ==
    /\ clock < MaxBoundaryOps
    /\ UnknownTool("no_such_tool")
    /\ reply' = StdioReply(resp')
    /\ UNCHANGED <<calls, sse>>

RemoteEncode ==
    /\ clock < MaxBoundaryOps
    /\ \E args \in BoundaryEncodeArgs, fault \in BoundaryFaults :
          RemoteEncodeMemory(args, fault)
    /\ reply' = RemoteReply(resp')
    /\ UNCHANGED <<calls, sse>>

RemoteRecall ==
    /\ clock < MaxBoundaryOps
    /\ \E args \in BoundaryRecallArgs, fault \in BoundaryFaults :
          RemoteRecallMemory(args, fault)
    /\ reply' = RemoteReply(resp')
    /\ UNCHANGED <<calls, sse>>

RemoteUnknown ==
    /\ clock < MaxBoundaryOps
    /\ UnknownTool("evolve_bond")
    /\ reply' = RemoteReply(resp')
    /\ UNCHANGED <<calls, sse>>

NextBoundary ==
    \/ StdioEncode \/ StdioRecall \/ StdioWriteEvent \/ StdioUnknown
    \/ RemoteEncode \/ RemoteRecall \/ RemoteUnknown

SpecBoundary == Init /\ [][NextBoundary]_vars

\* C14: every failing tool call, on either server, hands its caller an
\* object with success = false, an error message and the elapsed
\* execution time.
C14_StructuredFailure ==
    (reply.server # "none" /\ ~reply.success) =>
        (reply.error # Null /\ reply.elapsed)

-----------------------------------------------------------------------------
(* query_graph *)

\* session.run(cypher, params) for the Cypher texts used here:
\*   MATCH (n) RETURN n
\*   CREATE (n:Note {id: $id})
\*   MATCH (n) DETACH DELETE n
RunCypher(g, cypher, params) ==
    CASE cypher = "MATCH (n) RETURN n" -> g
      [] cypher = "CREATE (n:Note {id: $id})" ->
            CreateNode(g, [Node0 EXCEPT !.label = "Note", !.id = params.id])
      [] cypher = "MATCH (n) DETACH DELETE n" -> EmptyGraph
      [] cypher = "MATCH ()-[b:BOND]->() DELETE b" ->
            [g EXCEPT !.rels = SelectSeq(@, LAMBDA r : r.type # "BOND")]

\* the session is opened in the default access mode and the text is run as
\* given
handleQueryGraph(args, fault) ==
    /\ clock' = clock + 1
    /\ transactions' = transactions
    /\ sessions' = sessions
    /\ IF fault.at = "stmt"
       THEN /\ graph' = graph
            /\ resp' = Failure("query_graph", args, fault, "statement error", 1)
       ELSE /\ graph' = RunCypher(graph, args.cypher, args.params)
            /\ resp' = Success("query_graph", args, fault,
                               [count |-> IF args.cypher = "MATCH (n) RETURN n"
                                          THEN Len(graph.nodes) ELSE 0], 1)

MaxQueryOps == 3

QueryArgs ==
    {[cypher |-> "MATCH (n) RETURN n", params |-> NoProps],
     [cypher |-> "MATCH (n) DETACH DELETE n", params |-> NoProps]}
    \cup {[cypher |-> "CREATE (n:Note {id: $id})", params |-> [id |-> i]] :
            i \in {"n1", "n2"}}

QueryWriteEvent ==
    /\ clock < MaxQueryOps
    /\ UNCHANGED <<reply, calls, sse>>
    /\ \E args \in LimitEventArgs : handleWriteEvent(args, NoFault)

QueryQuery ==
    /\ clock < MaxQueryOps
    /\ UNCHANGED <<reply, calls, sse>>
    /\ \E args \in QueryArgs, fault \in {NoFault, StmtFault(1)} :
          handleQueryGraph(args, fault)

NextQuery == QueryWriteEvent \/ QueryQuery

SpecQuery == Init /\ [][NextQuery]_vars

\* C15: query_graph leaves the graph's nodes, relationships and properties
\* as they were, whatever Cypher text and parameters it is given.
C15_QueryReadOnly == [][Called("query_graph") => graph' = graph]_vars

-----------------------------------------------------------------------------
(* Bonds and effects written with numbers outside their declared ranges *)

MaxRangeOps == 3

RangeEventArgs ==
    {[event |-> [NoEvent EXCEPT !.who = <<[id |-> "a", type |-> "agent"],
                                          [id |-> "b", type |-> "agent"]>>,
                                !.effects = <<[EffectOnA EXCEPT !.intensity = i]>>]] :
        i \in {5, 15, 0 - 2}}

RangeBondArgs ==
    [from_entity_id : {"a"}, to_entity_id : {"b"},
     new_strength : {3, 15, 0 - 2}, emotional_resonance : {NullN, 5, 0 - 15},
     milestone : {Null}, interaction_context : {Null}]

RangeWriteEvent ==
    /\ clock < MaxRangeOps
    /\ UNCHANGED <<reply, calls, sse>>
    /\ \E args \in RangeEventArgs : handleWriteEvent(args, NoFault)

RangeEvolve ==
    /\ clock < MaxRangeOps
    /\ UNCHANGED <<reply, calls, sse>>
    /\ \E args \in RangeBondArgs : handleEvolveBond(args, NoFault)

NextRange == RangeWriteEvent \/ RangeEvolve

SpecRange == Init /\ [][NextRange]_vars

\* C16: every BOND edge has strength in [0,1] and emotional_resonance in
\* [-1,1] or unset, since evolve_bond rejects out-of-range arguments before
\* any write.
C16_BondInRange ==
    \A j \in RelIds(graph) :
        graph.rels[j].type = "BOND" =>
            /\ graph.rels[j].p.strength >= 0 /\ graph.rels[j].p.strength <= 10
            /\ \/ graph.rels[j].p.emotional_resonance = NullN
               \/ /\ graph.rels[j].p.emotional_resonance >= 0 - 10
                  /\ graph.rels[j].p.emotional_resonance <= 10

\* C17: every Effect node has intensity in [0,1], since
\* hippocampus_write_event aborts on an out-of-range effect before the
\* Event or any other node is created.
C17_EffectInRange ==
    \A n \in NodeIds(graph) :
        graph.nodes[n].label = "Effect" =>
            graph.nodes[n].intensity >= 0 /\ graph.nodes[n].intensity <= 10

-----------------------------------------------------------------------------
(* Recall with intervals given the wrong way round *)

MaxIntervalOps == 3

IntervalArgs ==
    [query : {Null, "cats"}, emotional_range : {<<>>, <<0, 10>>, <<10, 0>>},
     temporal_range : {<<>>, <<1, 3>>, <<3, 1>>}, significance_threshold : {NullN},
     involves_entities : {<<>>}, event_types : {<<>>}, limit : {NullN},
     include_consolidations : {FALSE}]

IntervalEncode ==
    /\ clock < MaxIntervalOps
    /\ UNCHANGED <<reply, calls, sse>>
    /\ \E args \in LimitEncodeArgs : handleEncodeMemory(args, NoFault)

IntervalRecall ==
    /\ clock < MaxIntervalOps
    /\ UNCHANGED <<reply, calls, sse>>
    /\ \E args \in IntervalArgs : handleRecallMemory(args, NoFault)

NextInterval == IntervalEncode \/ IntervalRecall

SpecInterval == Init /\ [][NextInterval]_vars

\* an interval whose first element is greater than its second
Inverted(range) == range # <<>> /\ range[1] > range[2]

\* C18: recall_memory given an emotional_range or temporal_range with
\* min > max fails with a validation error; it does not return an empty
\* list.
C18_InvertedRangeRejected ==
    [][(Called("recall_memory")
        /\ (Inverted(resp'.args.emotional_range) \/ Inverted(resp'.args.temporal_range)))
          => ~resp'.ok]_vars

-----------------------------------------------------------------------------
(* Transactions and sessions of the write pipelines (SpecWrite) *)

\* C19: when the embedding provider fails, encode_memory fails without
\* having opened a transaction and without writing anything.
C19_EmbeddingBeforeTransaction ==
    [][(Called("encode_memory") /\ resp'.fault = EmbedFault /\ EncodeValid(resp'.args.event))
          => (~resp'.ok /\ transactions' = transactions /\ graph' = graph)]_vars

\* C20: after any tool call has returned, with a result or with a failure
\* raised at any step, no session opened by a call remains open.
C20_SessionsReleased == sessions = 0

-----------------------------------------------------------------------------
(* Concurrent callers of evolve_bond.  A call acquires its session, sends  *)
(* its one statement, which the store runs as one auto-commit transaction, *)
(* and closes the session on return.  The store serialises transactions;   *)
(* the engine adds no locking of its own.                                  *)

\* calls made one at a time before the concurrent ones
MaxConcOps == 2

ConcEventArgs ==
    {[event |-> [NoEvent EXCEPT !.who = <<[id |-> "a", type |-> "agent"],
                                          [id |-> "b", type |-> "agent"]>>,
                                !.effects = fx]] :
        fx \in {<<>>, <<EffectOnA>>}}

ConcArgs ==
    [from_entity_id : {"a"}, to_entity_id : {"b"},
     new_strength : {3, 6}, emotional_resonance : {NullN},
     milestone : {Null, "m1"}, interaction_context : {"chat"}]

\* const session = driver.session(): the call is in flight
BeginEvolveBond(c, args) ==
    /\ calls.call[c].pc = "idle"
    /\ calls' = [before |-> IF \A d \in CallIds : calls.call[d].pc = "idle"
                            THEN graph ELSE calls.before,
                 call |-> [calls.call EXCEPT ![c] =
                              [pc |-> "session", args |-> args, at |-> 0,
                               result |-> NoProps]]]
    /\ UNCHANGED <<graph, clock, sessions, resp, reply, transactions, sse>>

\* await session.run(...): the statement's transaction, then the response
\* object built from its first record
RunEvolveBond(c) ==
    LET now  == clock + 1
        args == calls.call[c].args
        pm   == BondParams(args)
        rows == BondRows(graph, pm)
        g2   == BondMerge(graph, rows, pm, now)
    IN  /\ calls.call[c].pc = "session"
        /\ clock' = now
        /\ graph' = g2
        /\ \E first \in (IF rows = {} THEN {<<0, 0>>} ELSE rows) :
              calls' = [calls EXCEPT !.call[c] =
                  [pc |-> "ran", args |-> args, at |-> now,
                   result |-> IF rows = {}
                              THEN Failure("evolve_bond", args, NoFault,
                                           "TypeError", 1)
                              ELSE Success("evolve_bond", args, NoFault,
                                           BondData(g2, first), 1)]]
        /\ UNCHANGED <<sessions, resp, reply, transactions, sse>>

\* finally { await session.close() } and the return to the caller
ReturnEvolveBond(c) ==
    /\ calls.call[c].pc = "ran"
    /\ resp' = calls.call[c].result
    /\ calls' = [calls EXCEPT !.call[c].pc = "done"]
    /\ UNCHANGED <<graph, clock, sessions, reply, transactions, sse>>

ConcWriteEvent ==
    /\ clock < MaxConcOps
    /\ \A c \in CallIds : calls.call[c].pc = "idle"
    /\ UNCHANGED <<reply, calls, sse>>
    /\ \E args \in ConcEventArgs : handleWriteEvent(args, NoFault)

\* a call made while no other is in flight
ConcEvolve ==
    /\ clock < MaxConcOps
    /\ \A c \in CallIds : calls.call[c].pc = "idle"
    /\ UNCHANGED <<reply, calls, sse>>
    /\ \E args \in ConcArgs : handleEvolveBond(args, NoFault)

ConcBegin == \E c \in CallIds, args \in ConcArgs : BeginEvolveBond(c, args)

ConcRun == \E c \in CallIds : RunEvolveBond(c)

ConcReturn == \E c \in CallIds : ReturnEvolveBond(c)

NextConc == ConcWriteEvent \/ ConcEvolve \/ ConcBegin \/ ConcRun \/ ConcReturn

SpecConc == Init /\ [][NextConc]_vars

\* a call's snapshot is in a trajectory
SnapshotIn(traj, cl) ==
    \E i \in DOMAIN traj :
        /\ traj[i].timestamp = cl.at
        /\ traj[i].strength = cl.args.new_strength
        /\ traj[i].context = JsOrNullStr(cl.args.interaction_context)

\* the interaction count of a pair of nodes, 0 where no BOND edge joins them
CountOf(g, pr) ==
    IF RelsBetween(g, "BOND", pr[1], pr[2]) = {} THEN 0
    ELSE BondProps(g, pr).interaction_count

\* both statements have run
BothRan ==
    /\ \A c \in CallIds : calls.call[c].pc \in {"ran", "done"}
    /\ \A c \in CallIds : calls.call[c].result.ok
    /\ calls.call[1].args.from_entity_id = calls.call[2].args.from_entity_id
    /\ calls.call[1].args.to_entity_id = calls.call[2].args.to_entity_id

\* C21: when two evolve_bond calls on the same ordered pair (A,B) were in
\* flight together, then in every interleaving the store ends with exactly
\* one BOND edge from A to B, an interaction count two above the one the
\* calls found, both calls' snapshots in the trajectory, and the strength of
\* the call whose statement ran last.
C21_ConcurrentBond ==
    BothRan =>
        LET last == CHOOSE c \in CallIds :
                        \A d \in CallIds : calls.call[d].at <= calls.call[c].at
        IN  \A pr \in NamedPairs(calls.before, calls.call[1].args) :
              /\ Cardinality(RelsBetween(graph, "BOND", pr[1], pr[2])) = 1
              /\ CountOf(graph, pr) = CountOf(calls.before, pr) + 2
              /\ \A c \in CallIds :
                    SnapshotIn(BondProps(graph, pr).evolution_trajectory,
                               calls.call[c])
              /\ Len(BondProps(graph, pr).evolution_trajectory) =
                    CountOf(calls.before, pr) + 2
              /\ BondProps(graph, pr).strength = calls.call[last].args.new_strength

\* both calls held their sessions at the same time, the second caller's
\* statement ran first, and the pair was already bonded
C21_Witness ==
    /\ BothRan
    /\ \A c \in CallIds : calls.call[c].pc = "ran"
    /\ calls.call[2].at < calls.call[1].at
    /\ calls.call[1].args.new_strength # calls.call[2].args.new_strength
    /\ \E pr \in NamedPairs(calls.before, calls.call[1].args) :
          /\ CountOf(calls.before, pr) = 1
          /\ CountOf(graph, pr) = 3

-----------------------------------------------------------------------------
(* mutate_graph, and the life of a BOND edge under every tool *)

\* the text is run as given; the response carries the update counters
handleMutateGraph(args, fault) ==
    LET g2 == RunCypher(graph, args.cypher, args.params)
    IN  /\ clock' = clock + 1
        /\ transactions' = transactions
        /\ sessions' = sessions
        /\ IF fault.at = "stmt"
           THEN /\ graph' = graph
                /\ resp' = Failure("mutate_graph", args, fault,
                                   "statement error", 1)
           ELSE /\ graph' = g2
                /\ resp' = Success("mutate_graph", args, fault,
                              [nodes_created |->
                                  IF Len(g2.nodes) > Len(graph.nodes)
                                  THEN Len(g2.nodes) - Len(graph.nodes) ELSE 0,
                               nodes_deleted |->
                                  IF Len(g2.nodes) < Len(graph.nodes)
                                  THEN Len(graph.nodes) - Len(g2.nodes) ELSE 0,
                               relationships_deleted |->
                                  IF Len(g2.rels) < Len(graph.rels)
                                  THEN Len(graph.rels) - Len(g2.rels) ELSE 0], 1)

MaxPersistOps == 4

PersistEventArgs ==
    {[event |-> [NoEvent EXCEPT !.who = <<[id |-> "a", type |-> "agent"],
                                          [id |-> "b", type |-> "agent"]>>]]}

PersistBondArgs ==
    [from_entity_id : {"a"}, to_entity_id : {"b"},
     new_strength : {3, 6}, emotional_resonance : {NullN},
     milestone : {Null}, interaction_context : {Null}]

PersistEncodeArgs ==
    {[event |-> MemoryEvent, involves |-> inv, precedes |-> <<>>,
      consolidates_to |-> <<>>] :
        inv \in {<<>>, <<[entity_id |-> "a", role |-> "subject", salience |-> 5]>>}}

PersistRecallArgs ==
    [query : {Null, "cats"}, emotional_range : {<<>>}, temporal_range : {<<>>},
     significance_threshold : {NullN}, involves_entities : {<<>>},
     event_types : {<<>>}, limit : {NullN}, include_consolidations : {FALSE}]

PersistSearchArgs ==
    [semantic_query : {Null}, time_range : {<<>>}, participants : {<<>>},
     entities : {<<>>}, place : {Null}, effects_on : {Null},
     min_effect_intensity : {NullN}, limit : {NullN}]

PersistCypherArgs ==
    {[cypher |-> c, params |-> NoProps] :
        c \in {"MATCH (n) RETURN n", "MATCH ()-[b:BOND]->() DELETE b"}}

PersistWriteEvent ==
    /\ clock < MaxPersistOps
    /\ UNCHANGED <<reply, calls, sse>>
    /\ \E args \in PersistEventArgs : handleWriteEvent(args, NoFault)

PersistEvolve ==
    /\ clock < MaxPersistOps
    /\ UNCHANGED <<reply, calls, sse>>
    /\ \E args \in PersistBondArgs : handleEvolveBond(args, NoFault)

PersistEncode ==
    /\ clock < MaxPersistOps
    /\ UNCHANGED <<reply, calls, sse>>
    /\ \E args \in PersistEncodeArgs : handleEncodeMemory(args, NoFault)

PersistRecall ==
    /\ clock < MaxPersistOps
    /\ UNCHANGED <<reply, calls, sse>>
    /\ \E args \in PersistRecallArgs : handleRecallMemory(args, NoFault)

PersistSearch ==
    /\ clock < MaxPersistOps
    /\ UNCHANGED <<reply, calls, sse>>
    /\ \E args \in PersistSearchArgs : handleSearchEvents(args, NoFault)

PersistMutate ==
    /\ clock < MaxPersistOps
    /\ UNCHANGED <<reply, calls, sse>>
    /\ \E args \in PersistCypherArgs : handleMutateGraph(args, NoFault)

PersistQuery ==
    /\ clock < MaxPersistOps
    /\ UNCHANGED <<reply, calls, sse>>
    /\ \E args \in PersistCypherArgs : handleQueryGraph(args, NoFault)

NextPersist ==
    \/ PersistWriteEvent \/ PersistEvolve \/ PersistEncode \/ PersistRecall
    \/ PersistSearch \/ PersistMutate \/ PersistQuery

SpecPersist == Init /\ [][NextPersist]_vars

\* the ordered pairs of entity ids joined by a BOND edge
Bonded(g) ==
    {<<g.nodes[g.rels[j].src].id, g.nodes[g.rels[j].dst].id>> :
        j \in {k \in RelIds(g) : g.rels[k].type = "BOND"}}

-----------------------------------------------------------------------------
(* Bond evolution with a neutral resonance, a milestone and a context *)

MaxTrajectoryOps == 3

TrajectoryEventArgs ==
    {[event |-> [NoEvent EXCEPT !.who = <<[id |-> "a", type |-> "agent"],
                                          [id |-> "b", type |-> "agent"]>>]]}

TrajectoryArgs ==
    [from_entity_id : {"a"}, to_entity_id : {"b"},
     new_strength : {3, 6}, emotional_resonance : {NullN, 0, 5},
     milestone : {Null, "", "m1"}, interaction_context : {Null, "chat"}]

TrajectoryWriteEvent ==
    /\ clock < MaxTrajectoryOps
    /\ UNCHANGED <<reply, calls, sse>>
    /\ \E args \in TrajectoryEventArgs : handleWriteEvent(args, NoFault)

TrajectoryEvolve ==
    /\ clock < MaxTrajectoryOps
    /\ UNCHANGED <<reply, calls, sse>>
    /\ \E args \in TrajectoryArgs : handleEvolveBond(args, NoFault)

NextTrajectory == TrajectoryWriteEvent \/ TrajectoryEvolve

SpecTrajectory == Init /\ [][NextTrajectory]_vars

\* the pairs an evolve_bond call names that a BOND edge already joins
BondedPairs(g, a) ==
    {pr \in NamedPairs(g, a) : RelsBetween(g, "BOND", pr[1], pr[2]) # {}}

\* C23: an evolve_bond call on an existing BOND edge sets the edge's
\* emotional_resonance to the supplied value, 0 included, leaves it as it
\* was when none is supplied, and always overwrites strength.
C23_ResonanceOverwritten ==
    [][(Called("evolve_bond") /\ resp'.ok) =>
          \A pr \in BondedPairs(graph, resp'.args) :
             /\ BondProps(graph', pr).strength = resp'.args.new_strength
             /\ BondProps(graph', pr).emotional_resonance =
                   IF resp'.args.emotional_resonance # NullN
                   THEN resp'.args.emotional_resonance
                   ELSE BondProps(graph, pr).emotional_resonance]_vars

\* a milestone is given when the argument is a non-empty text
MilestoneGiven(a) == a.milestone # Null /\ a.milestone # ""

IsPrefix(s, t) == Len(s) <= Len(t) /\ SubSeq(t, 1, Len(s)) = s

\* C24: under evolve_bond the trajectory and milestones lists of a BOND edge
\* are append-only: after every call each list has its previous value as a
\* prefix, the trajectory is one snapshot longer, milestones is one entry
\* longer (the milestone given) when a milestone is given and unchanged
\* otherwise, and first_interaction is what it was.
C24_AppendOnly ==
    [][(Called("evolve_bond") /\ resp'.ok) =>
          \A pr \in BondedPairs(graph, resp'.args) :
             LET b1 == BondProps(graph, pr)
                 b2 == BondProps(graph', pr)
             IN  /\ IsPrefix(b1.evolution_trajectory, b2.evolution_trajectory)
                 /\ Len(b2.evolution_trajectory) = Len(b1.evolution_trajectory) + 1
                 /\ IsPrefix(b1.milestones, b2.milestones)
                 /\ b2.milestones =
                       IF MilestoneGiven(resp'.args)
                       THEN Append(b1.milestones, resp'.args.milestone)
                       ELSE b1.milestones
                 /\ b2.first_interaction = b1.first_interaction]_vars

\* an edge created with a milestone and evolved once without one
C24_Witness ==
    /\ resp.op = "evolve_bond" /\ resp.ok /\ ~MilestoneGiven(resp.args)
    /\ \E j \in RelIds(graph) :
          /\ graph.rels[j].type = "BOND"
          /\ graph.rels[j].p.milestones = <<"m1">>
          /\ Len(graph.rels[j].p.evolution_trajectory) = 2
          /\ graph.rels[j].p.first_interaction < graph.rels[j].p.last_interaction

\* the snapshot a call is to append: its time and three of its arguments
SnapshotOf(a, now) ==
    [timestamp |-> now, strength |-> a.new_strength,
     emotional_resonance |-> a.emotional_resonance,
     context |-> a.interaction_context]

\* C25: every snapshot of a BOND edge's trajectory, the one written when the
\* edge is created included, carries the timestamp, strength, emotional
\* resonance and context of the call that appended it.
C25_SnapshotFields ==
    [][(Called("evolve_bond") /\ resp'.ok) =>
          \A pr \in NamedPairs(graph, resp'.args) :
             LET t == BondProps(graph', pr).evolution_trajectory
             IN  t[Len(t)] = SnapshotOf(resp'.args, clock')]_vars

-----------------------------------------------------------------------------
(* Effects: written fresh per entry, read back per Event *)

MaxEffectOps == 3

EffectEventArgs ==
    {[event |-> [NoEvent EXCEPT !.who = <<Alice>>, !.effects = fx]] :
        fx \in {<<>>, <<EffectOnA>>, <<EffectOnA, EffectOnA>>,
                <<EffectOnA, EffectOnB>>}}

EffectSearchArgs ==
    [semantic_query : {Null}, time_range : {<<>>}, participants : {<<>>, <<"Alice">>},
     entities : {<<>>}, place : {Null}, effects_on : {Null, "a"},
     min_effect_intensity : {NullN}, limit : {NullN}]

EffectWriteEvent ==
    /\ clock < MaxEffectOps
    /\ UNCHANGED <<reply, calls, sse>>
    /\ \E args \in EffectEventArgs, fault \in {NoFault, CommitFault} :
          handleWriteEvent(args, fault)

EffectSearch ==
    /\ clock < MaxEffectOps
    /\ UNCHANGED <<reply, calls, sse>>
    /\ \E args \in EffectSearchArgs : handleSearchEvents(args, NoFault)

NextEffect == EffectWriteEvent \/ EffectSearch

SpecEffect == Init /\ [][NextEffect]_vars

NodesOf(g, label) == {i \in NodeIds(g) : g.nodes[i].label = label}

\* the Target nodes an effect entry names
TargetsOf(g, fx) ==
    {i \in NodesOf(g, "Target") :
        g.nodes[i].id = fx.target_id /\ g.nodes[i].kind = fx.target_kind}

\* C26: a successful hippocampus_write_event with k effect entries adds
\* exactly k Effect nodes, each bound to the new Event and to one Target,
\* also when an entry repeats an Effect of the graph or of the same call;
\* the Target of an entry is one node, reused if it existed.
C26_EffectsFresh ==
    [][(Called("hippocampus_write_event") /\ resp'.ok) =>
          LET fxs  == resp'.args.event.effects
              new  == NodesOf(graph', "Effect") \ NodesOf(graph, "Effect")
              e    == EventRows(graph', resp'.data.event_id)
          IN  /\ NodesOf(graph, "Effect") \subseteq NodesOf(graph', "Effect")
              /\ Cardinality(new) = Len(fxs)
              /\ \A f \in new :
                    /\ Sources(graph', "HAD_EFFECT_ON", f) = e
                    /\ Cardinality(Targets(graph', "WITH_RESPECT_TO", f)) = 1
              /\ \A i \in DOMAIN fxs :
                    /\ Cardinality(TargetsOf(graph', fxs[i])) = 1
                    /\ TargetsOf(graph, fxs[i]) \subseteq TargetsOf(graph', fxs[i])
                    /\ \E f \in new :
                          /\ graph'.nodes[f].summary = fxs[i].summary
                          /\ Targets(graph', "WITH_RESPECT_TO", f) =
                                TargetsOf(graph', fxs[i])]_vars

\* three Effect nodes with the same content on one Target, two of them
\* written by the last call
C26_Witness ==
    /\ resp.op = "hippocampus_write_event" /\ resp.ok
    /\ resp.args.event.effects = <<EffectOnA, EffectOnA>>
    /\ Cardinality({f \in NodesOf(graph, "Effect") :
                       graph.nodes[f].summary = "s1"}) = 3
    /\ Cardinality(NodesOf(graph, "Target")) = 1

\* the Effect nodes bound to the Events carrying an id
EffectsOfEvent(g, id) ==
    UNION {{f \in Targets(g, "HAD_EFFECT_ON", e) : g.nodes[f].label = "Effect"} :
              e \in EventRows(g, id)}

\* C27: for every Event hippocampus_search_events returns, the effects block
\* holds one (effect, valence, intensity, target) tuple per Effect node
\* bound to the Event, also when two of its effects are identical.
C27_TuplePerEffect ==
    (resp.op = "hippocampus_search_events" /\ resp.ok) =>
        \A i \in DOMAIN resp.data.events :
            Cardinality(resp.data.events[i].effects) =
                Cardinality(EffectsOfEvent(graph, resp.data.events[i].id))

-----------------------------------------------------------------------------
(* Recall with and without the consolidation projection *)

MaxConsolidationOps == 3

ConsolidationEventArgs ==
    {[event |-> [NoEvent EXCEPT !.what_entities = <<EntityX, EntityY>>]]}

ConsolidationEncodeArgs ==
    {[event |-> [MemoryEvent EXCEPT !.significance = g],
      involves |-> inv, precedes |-> <<>>, consolidates_to |-> cons] :
        g \in {3, 7},
        inv \in {<<>>,
                 <<[entity_id |-> "x", role |-> "subject", salience |-> 5]>>,
                 <<[entity_id |-> "x", role |-> "subject", salience |-> 5],
                   [entity_id |-> "y", role |-> "object", salience |-> 5]>>},
        cons \in {<<>>, <<[target_id |-> "x", strength |-> 5, type |-> "semantic"]>>}}

ConsolidationArgs ==
    [query : {Null, "cats"}, emotional_range : {<<>>}, temporal_range : {<<>>},
     significance_threshold : {NullN}, involves_entities : {<<>>, <<"x">>, <<"x", "y">>},
     event_types : {<<>>}, limit : {NullN, 1}, include_consolidations : BOOLEAN]

ConsolidationWriteEvent ==
    /\ clock < MaxConsolidationOps
    /\ UNCHANGED <<reply, calls, sse>>
    /\ \E args \in ConsolidationEventArgs : handleWriteEvent(args, NoFault)

ConsolidationEncode ==
    /\ clock < MaxConsolidationOps
    /\ UNCHANGED <<reply, calls, sse>>
    /\ \E args \in ConsolidationEncodeArgs : handleEncodeMemory(args, NoFault)

ConsolidationRecall ==
    /\ clock < MaxConsolidationOps
    /\ UNCHANGED <<reply, calls, sse>>
    /\ \E args \in ConsolidationArgs : handleRecallMemory(args, NoFault)

NextConsolidation ==
    ConsolidationWriteEvent \/ ConsolidationEncode \/ ConsolidationRecall

SpecConsolidation == Init /\ [][NextConsolidation]_vars

\* the sequences of Event ids a recall_memory call on store g may return
RecallIdSeqs(g, args) ==
    LET limit == RecallLimit(args)
        cs    == IF JsOrNullStr(args.query) # Null
                 THEN VectorCandidates(g, 2 * limit,
                                       generateEmbedding(<<args.query>>))
                 ELSE {{i \in NodeIds(g) : g.nodes[i].label = "Event"}}
    IN  UNION {{[i \in 1..Len(Limit(sorted, limit)) |-> g.nodes[sorted[i].e].id] :
                   sorted \in OrderedDesc(RecallRows(g, args, cands), RowScore)} :
                 cands \in cs}

\* the ids of the memories of a response, in order
RecalledIds(r) == [i \in 1..Len(r.data.memories) |-> r.data.memories[i].id]

\* C28: include_consolidations never affects what recall_memory ranks: the
\* sequence of Event ids a call returns is one the same call with the flag
\* reversed returns on the same store.
C28_ConsolidationsNeutral ==
    (resp.op = "recall_memory" /\ resp.ok) =>
        RecalledIds(resp) \in
            RecallIdSeqs(graph, [resp.args EXCEPT !.include_consolidations = ~@])

-----------------------------------------------------------------------------
(* Causal chains: encode_memory with precedes lists *)

MaxPrecedeOps == 3

PrecedeEventArgs == {[event |-> [NoEvent EXCEPT !.id = "e1"]]}

\* ids of Events that may exist ("e1", "u1", "u2") and one that does not
PrecedeLists ==
    {<<>>, <<"e1">>, <<"u1">>, <<"u1", "u1">>, <<"u1", "u2">>, <<"u2", "zz">>}

PrecedeEncodeArgs ==
    {[event |-> MemoryEvent, involves |-> <<>>, precedes |-> pl,
      consolidates_to |-> <<>>] : pl \in PrecedeLists}

PrecedeWriteEvent ==
    /\ clock < MaxPrecedeOps
    /\ UNCHANGED <<reply, calls, sse>>
    /\ \E args \in PrecedeEventArgs : handleWriteEvent(args, NoFault)

\* the id the call is about to draw with randomUUID() is not one the caller
\* can have put in its precedes list
PrecedeEncode ==
    /\ clock < MaxPrecedeOps
    /\ UNCHANGED <<reply, calls, sse>>
    /\ \E args \in PrecedeEncodeArgs,
          fault \in {NoFault, StmtFault(2), CommitFault, RereadFault} :
          /\ randomUUID(clock + 1) \notin SeqToSet(args.precedes)
          /\ handleEncodeMemory(args, fault)

NextPrecede == PrecedeWriteEvent \/ PrecedeEncode

SpecPrecede == Init /\ [][NextPrecede]_vars

\* the PRECEDED relation over nodes
Preceded(g) ==
    {<<g.rels[j].src, g.rels[j].dst>> :
        j \in {k \in RelIds(g) : g.rels[k].type = "PRECEDED"}}

\* the pairs joined by a chain of at most n + 1 edges of R
RECURSIVE Chains(_, _)
Chains(R, n) ==
    IF n = 0 THEN R
    ELSE LET S == Chains(R, n - 1)
         IN  S \cup {<<xy[1][1], xy[2][2]>> :
                        xy \in {p \in S \X R : p[1][2] = p[2][1]}}

Acyclic(g) == \A x \in Chains(Preceded(g), Len(g.nodes)) : x[1] # x[2]

\* C29: after any sequence of encode_memory calls the PRECEDED relation over
\* Events is acyclic: every PRECEDED edge a call creates goes from an Event
\* that existed before the call to the Event the call creates; no call
\* creates an edge between two earlier Events or a self-loop.
C29_PrecededAcyclic ==
    [][Called("encode_memory") =>
          /\ \A x \in Preceded(graph') \ Preceded(graph) :
                /\ x[1] \in NodeIds(graph) /\ graph.nodes[x[1]].label = "Event"
                /\ x[2] \notin NodeIds(graph) /\ graph'.nodes[x[2]].label = "Event"
                /\ x[1] # x[2]
          /\ Preceded(graph) \subseteq Preceded(graph')
          /\ Acyclic(graph')]_vars

\* a chain of three Events: the first precedes the second and the third,
\* the second precedes the third
C29_Witness ==
    /\ resp.op = "encode_memory" /\ resp.ok
    /\ resp.args.precedes = <<"u1", "u2">>
    /\ Cardinality(Preceded(graph)) = 3
    /\ Cardinality(Chains(Preceded(graph), Len(graph.nodes))) = 3

-----------------------------------------------------------------------------
(* Pattern completion with a semantic cue *)

MaxSemanticOps == 3

\* "cats" and "tax" are unrelated texts: their vectors have similarity 0
SemanticEventArgs ==
    {[event |-> [NoEvent EXCEPT !.title = t, !.description = t, !.where = w]] :
        t \in {"cats", "tax"}, w \in {"HQ", "Lab"}}

SemanticArgs ==
    [semantic_query : {Null, "cats", "tax"}, time_range : {<<>>},
     participants : {<<>>}, entities : {<<>>}, place : {Null, "HQ"},
     effects_on : {Null}, min_effect_intensity : {NullN}, limit : {NullN, 1}]

SemanticWriteEvent ==
    /\ clock < MaxSemanticOps
    /\ UNCHANGED <<reply, calls, sse>>
    /\ \E args \in SemanticEventArgs : handleWriteEvent(args, NoFault)

SemanticSearch ==
    /\ clock < MaxSemanticOps
    /\ UNCHANGED <<reply, calls, sse>>
    /\ \E args \in SemanticArgs : handleSearchEvents(args, NoFault)

NextSemantic == SemanticWriteEvent \/ SemanticSearch

SpecSemantic == Init /\ [][NextSemantic]_vars

\* the event lists a hippocampus_search_events call on store g may return
SearchOutcomes(g, args) ==
    IF ~WellFormed(SearchQueryText(args)) \/ SearchLimit(args) < 0 THEN {}
    ELSE {Limit(sorted, SearchLimit(args)) :
             sorted \in OrderedDesc(SearchRows(g, args), SearchWhen)}

\* the store holds two Events whose texts are unrelated
UnrelatedEvents(g) ==
    \E e1, e2 \in NodesOf(g, "Event") :
        Similarity(generateEmbedding(<<g.nodes[e1].title>>),
                   generateEmbedding(<<g.nodes[e2].title>>)) = 0

\* C30: semantic_query takes part in selecting the Events
\* hippocampus_search_events returns: on a store holding Events of unrelated
\* content there are two calls that differ only in semantic_query and
\* return different results.
C30_SemanticQuerySelects ==
    UnrelatedEvents(graph) =>
        \E a \in SemanticArgs, q \in {Null, "cats", "tax"} :
            SearchOutcomes(graph, a) #
                SearchOutcomes(graph, [a EXCEPT !.semantic_query = q])

-----------------------------------------------------------------------------
(* The two servers side by side on one store *)

MaxEquivOps == 3

EquivEventArgs == {[event |-> [NoEvent EXCEPT !.what_entities = <<EntityX>>]]}

EquivEncodeArgs ==
    {[event |-> [MemoryEvent EXCEPT !.significance = g],
      involves |-> inv, precedes |-> <<>>, consolidates_to |-> <<>>] :
        g \in {3, 15},
        inv \in {<<>>, <<[entity_id |-> "x", role |-> "subject", salience |-> 5]>>}}

EquivRecallArgs ==
    [query : {Null, "cats"}, emotional_range : {<<>>}, temporal_range : {<<>>},
     significance_threshold : {NullN, 5}, involves_entities : {<<>>},
     event_types : {<<>>}, limit : {NullN}, include_consolidations : {FALSE}]

EquivWriteEvent ==
    /\ clock < MaxEquivOps
    /\ UNCHANGED <<reply, calls, sse>>
    /\ \E args \in EquivEventArgs : handleWriteEvent(args, NoFault)

EquivStdioEncode ==
    /\ clock < MaxEquivOps
    /\ \E args \in EquivEncodeArgs : handleEncodeMemory(args, NoFault)
    /\ reply' = StdioReply(resp')
    /\ UNCHANGED <<calls, sse>>

EquivStdioRecall ==
    /\ clock < MaxEquivOps
    /\ \E args \in EquivRecallArgs : handleRecallMemory(args, NoFault)
    /\ reply' = StdioReply(resp')
    /\ UNCHANGED <<calls, sse>>

EquivRemoteEncode ==
    /\ clock < MaxEquivOps
    /\ \E args \in EquivEncodeArgs : RemoteEncodeMemory(args, NoFault)
    /\ reply' = RemoteReply(resp')
    /\ UNCHANGED <<calls, sse>>

EquivRemoteRecall ==
    /\ clock < MaxEquivOps
    /\ \E args \in EquivRecallArgs : RemoteRecallMemory(args, NoFault)
    /\ reply' = RemoteReply(resp')
    /\ UNCHANGED <<calls, sse>>

NextEquiv ==
    \/ EquivWriteEvent \/ EquivStdioEncode \/ EquivStdioRecall
    \/ EquivRemoteEncode \/ EquivRemoteRecall

SpecEquiv == Init /\ [][NextEquiv]_vars

\* a call answered by the remote server
RemoteCalled(op) == Called(op) /\ reply'.server = "remote"

\* the INVOLVES relationships of the Events carrying an id
InvolvesOf(g, id) ==
    {[dst |-> g.rels[j].dst, p |-> g.rels[j].p] :
        j \in {k \in RelIds(g) :
                 g.rels[k].type = "INVOLVES" /\ g.rels[k].src \in EventRows(g, id)}}

\* the graph the stdio handler's transaction builds for the same call
StdioEncoded(g, args, now) ==
    EncRun(g, randomUUID(now),
           IF args.event.timestamp = NullN THEN now ELSE args.event.timestamp,
           args.event, generateEmbedding(EmbeddingText(args.event)),
           EncStatements(args), Len(EncStatements(args)))

\* C31: the remote server's handlers behave as the stdio server's do on the
\* same arguments and store: encode_memory rejects an out-of-range valence
\* or significance and otherwise writes the Event with its involves
\* relationships; recall_memory without a query returns the filtered Events
\* with a count.
C31_RemoteAsStdio ==
    [][/\ RemoteCalled("encode_memory") =>
             IF ~EncodeValid(resp'.args.event)
             THEN ~resp'.ok /\ graph' = graph
             ELSE /\ resp'.ok
                  /\ InvolvesOf(graph', randomUUID(clock')) =
                        InvolvesOf(StdioEncoded(graph, resp'.args, clock'),
                                   randomUUID(clock'))
       /\ (RemoteCalled("recall_memory") /\ resp'.args.query = Null) =>
             /\ resp'.ok
             /\ "count" \in DOMAIN resp'.data
             /\ RecalledIds(resp') \in RecallIdSeqs(graph, resp'.args)]_vars

-----------------------------------------------------------------------------
(* Bond evolution where an id is carried by nodes of several kinds *)

\* the BOND edges a step created or changed
BondsTouched(g, g2) ==
    {j \in RelIds(g2) :
        /\ g2.rels[j].type = "BOND"
        /\ j \notin RelIds(g) \/ g2.rels[j] # g.rels[j]}

\* C32: every successful evolve_bond(A,B,...) creates or updates exactly one
\* BOND edge, also where an Agent and an effect Target carry the same id,
\* and the bond it returns is that edge.
C32_OneBondPerCall ==
    [][(Called("evolve_bond") /\ resp'.ok) =>
          /\ Cardinality(BondsTouched(graph, graph')) = 1
          /\ \A j \in BondsTouched(graph, graph') :
                /\ resp'.data.bond.strength = graph'.rels[j].p.strength
                /\ resp'.data.bond.interaction_count =
                      graph'.rels[j].p.interaction_count]_vars

-----------------------------------------------------------------------------
(* The stdio dispatcher and the extension handlers *)

MaxDispatchOps == 3

DispatchReflectionArgs ==
    [event_id : {"e1", "u1"}, agent_id : {"a"},
     reflection : {[summary |-> "r1", valence |-> "positive",
                    considered_targets |-> <<>>]}]

DispatchSearchArgs ==
    [semantic_query : {Null}, time_range : {<<>>}, participants : {<<>>, <<"Alice">>},
     entities : {<<>>}, place : {Null}, effects_on : {Null},
     min_effect_intensity : {NullN}, limit : {NullN}]

DispatchEncode ==
    /\ clock < MaxDispatchOps
    /\ \E args \in BoundaryEncodeArgs : handleEncodeMemory(args, NoFault)
    /\ reply' = StdioReply(resp')
    /\ UNCHANGED <<calls, sse>>

DispatchRecall ==
    /\ clock < MaxDispatchOps
    /\ \E args \in BoundaryRecallArgs : handleRecallMemory(args, NoFault)
    /\ reply' = StdioReply(resp')
    /\ UNCHANGED <<calls, sse>>

DispatchWriteEvent ==
    /\ clock < MaxDispatchOps
    /\ \E args \in LimitEventArgs : HipThroughContext("hippocampus_write_event", args)
    /\ reply' = StdioReply(resp')
    /\ UNCHANGED <<calls, sse>>

DispatchWriteReflection ==
    /\ clock < MaxDispatchOps
    /\ \E args \in DispatchReflectionArgs :
          HipThroughContext("hippocampus_write_reflection", args)
    /\ reply' = StdioReply(resp')
    /\ UNCHANGED <<calls, sse>>

DispatchSearch ==
    /\ clock < MaxDispatchOps
    /\ \E args \in DispatchSearchArgs :
          HipThroughContext("hippocampus_search_events", args)
    /\ reply' = StdioReply(resp')
    /\ UNCHANGED <<calls, sse>>

NextDispatch ==
    \/ DispatchEncode \/ DispatchRecall \/ DispatchWriteEvent
    \/ DispatchWriteReflection \/ DispatchSearch

SpecDispatch == Init /\ [][NextDispatch]_vars

ExtensionTools ==
    {"hippocampus_write_event", "hippocampus_write_reflection",
     "hippocampus_search_events"}

\* C33: a hippocampus_write_event, hippocampus_write_reflection or
\* hippocampus_search_events call with valid arguments that arrives through
\* the stdio dispatcher, against a healthy store, reaches the store and
\* returns success = true.
C33_ExtensionReachesStore ==
    (reply.server = "stdio" /\ resp.op \in ExtensionTools) =>
        reply.success /\ resp.issued > 0

-----------------------------------------------------------------------------
(* Bond evolution: the trajectory and the interaction count *)

\* C34: in every state reached by evolve_bond calls, the trajectory of every
\* BOND edge is as long as its interaction_count, and the trajectory_length
\* a call returns equals the interaction_count it returns.
C34_TrajectoryCounts ==
    /\ \A j \in RelIds(graph) :
          graph.rels[j].type = "BOND" =>
              Len(graph.rels[j].p.evolution_trajectory) =
                  graph.rels[j].p.interaction_count
    /\ (resp.op = "evolve_bond" /\ resp.ok) =>
          resp.data.bond.trajectory_length = resp.data.bond.interaction_count

\* two BOND edges of one call, each evolved twice
C34_Witness ==
    /\ resp.op = "evolve_bond" /\ resp.ok
    /\ resp.data.bond.trajectory_length = 2
    /\ \E j, k \in RelIds(graph) :
          /\ j # k
          /\ graph.rels[j].type = "BOND" /\ graph.rels[k].type = "BOND"
          /\ Len(graph.rels[j].p.evolution_trajectory) = 2
          /\ Len(graph.rels[k].p.evolution_trajectory) = 2

-----------------------------------------------------------------------------
(* encode_memory: the counts of the response *)

\* C35: the relationships_created a successful encode_memory reports is the
\* number of relationships the call created in the graph, also when an
\* identifier of involves, precedes or consolidates_to resolves to no node
\* or to several.
C35_RelationshipsCounted ==
    [][(Called("encode_memory") /\ resp'.ok) =>
          resp'.data.relationships_created = Len(graph'.rels) - Len(graph.rels)]_vars

-----------------------------------------------------------------------------
(* recall_memory on a store holding both kinds of Event *)

\* C36: on a store written by encode_memory and hippocampus_write_event,
\* every memory recall_memory returns has a numeric relevance_score, and no
\* Event without a significance is ranked above an Event that has one.
C36_ScoresDefined ==
    (resp.op = "recall_memory" /\ resp.ok) =>
        LET ms == resp.data.memories
        IN  /\ \A i \in DOMAIN ms : ms[i].relevance_score # NullN
            /\ \A i, j \in DOMAIN ms :
                  i < j => ~(ms[i].significance = NullN /\ ms[j].significance # NullN)

-----------------------------------------------------------------------------
(* recall_memory with a query: the candidate window of the vector index   *)

MaxWindowOps == 4

WindowEncodeArgs ==
    {[event |-> [MemoryEvent EXCEPT !.significance = g, !.context_summary = c],
      involves |-> <<>>, precedes |-> <<>>, consolidates_to |-> <<>>] :
        g \in {3, 7}, c \in {"cats", "rain"}}

WindowRecallArgs ==
    [query : {"cats"}, emotional_range : {<<>>}, temporal_range : {<<>>},
     significance_threshold : {NullN, 5}, involves_entities : {<<>>},
     event_types : {<<>>, <<"conversation">>}, limit : {NullN, 1},
     include_consolidations : {FALSE}]

WindowEncode ==
    /\ clock < MaxWindowOps
    /\ UNCHANGED <<reply, calls, sse>>
    /\ \E args \in WindowEncodeArgs : handleEncodeMemory(args, NoFault)

WindowRecall ==
    /\ clock < MaxWindowOps
    /\ UNCHANGED <<reply, calls, sse>>
    /\ \E args \in WindowRecallArgs : handleRecallMemory(args, NoFault)

NextWindow == WindowEncode \/ WindowRecall

SpecWindow == Init /\ [][NextWindow]_vars

\* a successful recall_memory call with a query and a structured filter
FilteredQueryRecall ==
    /\ Called("recall_memory") /\ resp'.ok
    /\ resp'.args.query # Null
    /\ \/ resp'.args.significance_threshold # NullN
       \/ resp'.args.event_types # <<>>

\* the Events of the store that satisfy the filters of a call
PassingFilters(g, a) ==
    {n \in NodeIds(g) :
        /\ g.nodes[n].label = "Event"
        /\ a.significance_threshold # NullN =>
              /\ g.nodes[n].significance # NullN
              /\ g.nodes[n].significance >= a.significance_threshold
        /\ a.event_types # <<>> =>
              \E i \in DOMAIN a.event_types : g.nodes[n].type = a.event_types[i]}

\* the Events the vector index holds
InIndex(g) ==
    {n \in NodeIds(g) : g.nodes[n].label = "Event" /\ g.nodes[n].embedding # NullN}

Fewer(n, m) == IF n < m THEN n ELSE m

\* C37 as stated: recall_memory with a query and structured filters returns
\* min(limit, M) results, M the number of Events in the store that satisfy
\* all the filters, however many Events the store holds.
C37_FilterNeverStarved ==
    [][FilteredQueryRecall =>
          Len(resp'.data.memories) =
              Fewer(RecallLimit(resp'.args),
                    Cardinality(PassingFilters(graph, resp'.args)))]_vars

\* C37: recall_memory with a query and structured filters returns only
\* Events that satisfy the filters and at most min(limit, M) of them, M the
\* number of Events in the store that satisfy all the filters; it returns
\* exactly min(limit, M) while the index holds at most 2*limit Events, and
\* with more it returns min(limit, W), W the number of Events satisfying the
\* filters among the 2*limit the index yields as nearest to the query.
C37_FilterWithinWindow ==
    [][FilteredQueryRecall =>
          LET a     == resp'.args
              limit == RecallLimit(a)
              pass  == PassingFilters(graph, a)
              ids   == {graph.nodes[n].id : n \in pass}
          IN  /\ Len(resp'.data.memories) <= Fewer(limit, Cardinality(pass))
              /\ ReturnedIds(resp') \subseteq ids
              /\ Cardinality(InIndex(graph)) <= 2 * limit =>
                    Len(resp'.data.memories) = Fewer(limit, Cardinality(pass))
              /\ \E S \in VectorCandidates(graph, 2 * limit,
                                           generateEmbedding(<<a.query>>)) :
                    /\ Len(resp'.data.memories) =
                          Fewer(limit, Cardinality(S \cap pass))
                    /\ ReturnedIds(resp') \subseteq
                          {graph.nodes[n].id : n \in S \cap pass}]_vars

\* three Events in the index, the only one that passes the threshold is the
\* farthest from the query: with limit 1 the window of two holds none that
\* passes, and nothing is returned
C37_Witness ==
    /\ resp.op = "recall_memory" /\ resp.ok
    /\ resp.args.query = "cats" /\ resp.args.limit = 1
    /\ resp.args.significance_threshold = 5
    /\ Len(resp.data.memories) = 0
    /\ Cardinality(InIndex(graph)) = 3
    /\ Cardinality(PassingFilters(graph, resp.args)) = 1

-----------------------------------------------------------------------------
(* hippocampus_write_reflection, and calls that name what the store lacks *)

\* OPTIONAL MATCH (e)-[:HELD_AT]->(p:Place): the values of p.name, null
\* when the Event is held nowhere
HeldAtNames(g, e) ==
    LET places == Collect(g, Targets(g, "HELD_AT", e), "Place", "name")
    IN  IF places = {} THEN {Null} ELSE places

\* OPTIONAL MATCH (e)-[:HAD_EFFECT_ON]->(f:Effect)-[:WITH_RESPECT_TO]->(t:Target)
\* WHERE t.id = $agentId OR t.id IN $consideredTargets: the distinct t.id
ConsideredTargetIds(g, e, pm) ==
    {g.nodes[x[2]].id :
        x \in {y \in NodeIds(g) \X NodeIds(g) :
                 /\ y[1] \in Targets(g, "HAD_EFFECT_ON", e)
                 /\ g.nodes[y[1]].label = "Effect"
                 /\ y[2] \in Targets(g, "WITH_RESPECT_TO", y[1])
                 /\ g.nodes[y[2]].label = "Target"
                 /\ \/ g.nodes[y[2]].id = pm.agentId
                    \/ g.nodes[y[2]].id \in SeqToSet(pm.consideredTargets)}} \ {Null}

\* the rows that reach CREATE (ref:Reflection ...): one per Event of the id,
\* Agent of the id and name of a Place the Event is held at, with the
\* distinct target ids and catalyst descriptions collected
ReflectionRows(g, bound, pm) ==
    {[e |-> r[1], a |-> r[2], where_context |-> r[3],
      who_context |-> <<pm.agentId>> \o SetToSeq(ConsideredTargetIds(g, r[1], pm)),
      how_context |-> Collect(g, Targets(g, "CATALYZED_BY", r[1]),
                              "Catalyst", "description")] :
        r \in {x \in EventRows(g, pm.eventId) \X bound
                       \X UNION {HeldAtNames(g, e) : e \in EventRows(g, pm.eventId)} :
                 x[3] \in HeldAtNames(g, x[1])}}

\* CREATE (ref:Reflection {...}) MERGE (ref)-[:ABOUT_EVENT]->(e)
\* MERGE (ref)-[:FROM_AGENT]->(a), row after row; the result is the graph
\* and the Reflection nodes created
RECURSIVE CreateReflections(_, _, _, _)
CreateReflections(g, rows, pm, now) ==
    IF rows = <<>> THEN [g |-> g, refs |-> <<>>]
    ELSE LET r    == Head(rows)
             ref  == Len(g.nodes) + 1
             g1   == CreateNode(g, [Node0 EXCEPT !.label = "Reflection",
                                                 !.summary = pm.summary,
                                                 !.valence = pm.valence,
                                                 !.entry_date = now,
                                                 !.who_context = r.who_context,
                                                 !.where_context = r.where_context,
                                                 !.how_context = r.how_context])
             g2   == MergeRels(g1, "ABOUT_EVENT", {<<ref, r.e>>})
             g3   == MergeRels(g2, "FROM_AGENT", {<<ref, r.a>>})
             rest == CreateReflections(g3, Tail(rows), pm, now)
         IN  [g |-> rest.g, refs |-> <<ref>> \o rest.refs]

\* the Agent merged for every call, whether or not the Event is matched
WriteReflectionMutantMergeFirst(g, pm, now) ==
    LET m == MergeNode(g, [Node0 EXCEPT !.label = "Agent", !.id = pm.agentId],
                       {"id"})
    IN  CreateReflections(m.g, SetToSeq(ReflectionRows(m.g, m.bound, pm)), pm, now)

\* MATCH (e:Event {id: $eventId}) MERGE (a:Agent {id: $agentId}) ...
\* CREATE (ref:Reflection ...) ... RETURN ref: without a matched Event no
\* clause after the MATCH has a row to run on
WriteReflection(g, pm, now) ==
    IF EventRows(g, pm.eventId) = {} THEN [g |-> g, refs |-> <<>>]
    ELSE LET m == MergeNode(g, [Node0 EXCEPT !.label = "Agent", !.id = pm.agentId],
                            {"id"})
         IN  CreateReflections(m.g, SetToSeq(ReflectionRows(m.g, m.bound, pm)),
                               pm, now)

\* one auto-commit statement; result.records[0].get('ref') throws a
\* TypeError when the statement returned no record
handleWriteReflection(args, fault) ==
    LET now == clock + 1
        pm  == [eventId |-> args.event_id, agentId |-> args.agent_id,
                summary |-> args.reflection.summary,
                valence |-> args.reflection.valence,
                consideredTargets |-> args.reflection.considered_targets]
        out == WriteReflection(graph, pm, now)
    IN  /\ clock' = now
        /\ transactions' = transactions
        /\ sessions' = sessions
        /\ IF fault.at = "stmt"
           THEN /\ graph' = graph
                /\ resp' = Failure("hippocampus_write_reflection", args, fault,
                                   "statement error", 1)
           ELSE /\ graph' = out.g
                /\ IF out.refs = <<>>
                   THEN resp' = Failure("hippocampus_write_reflection", args, fault,
                                        "TypeError", 1)
                   ELSE LET ref == out.g.nodes[out.refs[1]]
                        IN  resp' = Success("hippocampus_write_reflection", args, fault,
                                            [agent_id |-> args.agent_id,
                                             event_id |-> args.event_id,
                                             reflection |->
                                                [summary |-> ref.summary,
                                                 valence |-> ref.valence,
                                                 who_context |-> ref.who_context,
                                                 where_context |-> ref.where_context,
                                                 how_context |-> ref.how_context]], 1)

MaxReflectOps == 3

ReflectEventArgs ==
    {[event |-> [NoEvent EXCEPT !.id = "e1", !.where = w, !.who = <<AgentA>>,
                                !.why = <<"r1">>, !.effects = <<EffectOnA>>]] :
        w \in {Null, "HQ"}}

ReflectArgs ==
    [event_id : {"e1", "e9"}, agent_id : {"a", "c"},
     reflection : {[summary |-> "r1", valence |-> "positive",
                    considered_targets |-> t] : t \in {<<>>, <<"a">>}}]

ReflectBondArgs ==
    [from_entity_id : {"a", "z"}, to_entity_id : {"a", "c", "z"},
     new_strength : {3}, emotional_resonance : {NullN},
     milestone : {Null, "m1"}, interaction_context : {Null}]

ReflectWriteEvent ==
    /\ clock < MaxReflectOps
    /\ UNCHANGED <<reply, calls, sse>>
    /\ \E args \in ReflectEventArgs : handleWriteEvent(args, NoFault)

ReflectWrite ==
    /\ clock < MaxReflectOps
    /\ UNCHANGED <<reply, calls, sse>>
    /\ \E args \in ReflectArgs, fault \in {NoFault, StmtFault(1)} :
          handleWriteReflection(args, fault)

ReflectEvolve ==
    /\ clock < MaxReflectOps
    /\ UNCHANGED <<reply, calls, sse>>
    /\ \E args \in ReflectBondArgs : handleEvolveBond(args, NoFault)

NextReflect == ReflectWriteEvent \/ ReflectWrite \/ ReflectEvolve

SpecReflect == Init /\ [][NextReflect]_vars

\* the store holds no node of the id
Unknown(g, id) == \A n \in NodeIds(g) : g.nodes[n].id # id

\* C38: hippocampus_write_reflection with an event_id that matches no Event,
\* and evolve_bond with a from or to id that matches no node, fail and leave
\* the graph as it was: no Agent, Reflection or BOND edge is created.
C38_UnmatchedWritesNothing ==
    [][/\ (/\ Called("hippocampus_write_reflection")
           /\ \A n \in NodeIds(graph) :
                 ~(graph.nodes[n].label = "Event"
                   /\ graph.nodes[n].id = resp'.args.event_id)) =>
             (~resp'.ok /\ graph' = graph)
       /\ (/\ Called("evolve_bond")
           /\ \/ Unknown(graph, resp'.args.from_entity_id)
              \/ Unknown(graph, resp'.args.to_entity_id)) =>
             (~resp'.ok /\ graph' = graph)]_vars

\* a reflection of an agent the store does not know on an Event it does not
\* hold, after a bond was refused for the same agent: the store holds the
\* written Event and still no Agent c, Reflection or BOND edge
C38_Witness ==
    /\ resp.op = "hippocampus_write_reflection" /\ ~resp.ok
    /\ resp.error = "TypeError"
    /\ resp.args.event_id = "e9" /\ resp.args.agent_id = "c"
    /\ EventRows(graph, "e1") # {}
    /\ MatchNodes(graph, "Agent", "id", "a") # {}
    /\ \A n \in NodeIds(graph) :
          graph.nodes[n].label # "Reflection" /\ graph.nodes[n].id # "c"
    /\ \A j \in RelIds(graph) : graph.rels[j].type # "BOND"

-----------------------------------------------------------------------------
(* The remote server's HTTP routes: GET /sse and POST /messages *)

MaxSseOps == 5

\* the tools/call requests a client posts
SseTools == {"encode_memory", "recall_memory", "query_graph"}

\* app.get('/sse'): a Server with the tool handlers set up and an
\* SSEServerTransport on the response, connected; the handler keeps no
\* reference to either
GetSse ==
    /\ clock < MaxSseOps
    /\ clock' = clock + 1
    /\ sse' = [sse EXCEPT !.transports =
                  Append(@, [received |-> <<>>, sent |-> <<>>])]
    /\ UNCHANGED <<graph, sessions, resp, reply, transactions, calls>>

\* app.post('/messages'): res.status(200).end(), whatever the request holds
PostMessages ==
    /\ clock < MaxSseOps
    /\ \E c \in DOMAIN sse.transports, tool \in SseTools :
          sse' = [sse EXCEPT !.posts =
                     Append(@, [session |-> c,
                                message |-> [id |-> Len(sse.posts) + 1,
                                             tool |-> tool],
                                status |-> 200])]
    /\ clock' = clock + 1
    /\ UNCHANGED <<graph, sessions, resp, reply, transactions, calls>>

NextSse == GetSse \/ PostMessages

SpecSse == Init /\ [][NextSse]_vars

\* the message was handed to the transport of the connection
Delivered(c, m) ==
    \E k \in DOMAIN sse.transports[c].received : sse.transports[c].received[k] = m

\* an answer to the message went out on the SSE stream of the connection
Answered(c, m) ==
    \E k \in DOMAIN sse.transports[c].sent : sse.transports[c].sent[k].id = m.id

\* C39: on the remote server, once an SSE connection is open, every message
\* a client POSTs to /messages is delivered to that connection's transport
\* and answered over its SSE stream: the POST handler is the only code that
\* holds the message, so by the time it has answered 200 the message has
\* been handed over.
C39_PostedIsDelivered ==
    \A i \in DOMAIN sse.posts :
        sse.posts[i].status = 200 =>
            /\ Delivered(sse.posts[i].session, sse.posts[i].message)
            /\ Answered(sse.posts[i].session, sse.posts[i].message)

=============================================================================
